---- MODULE Spec2Model ----
(***************************************************************************)
(* A model of the serde codecs of solc-rs: the packed source-location      *)
(* scalar, the elementary-type-name scalar and the syntax-tree records     *)
(* built on them.  Texts are sequences of one-character strings so that    *)
(* splitting, prefix tests and digit parsing are computed, not assumed.    *)
(***************************************************************************)
EXTENDS Integers, Sequences, FiniteSets, TLC

VARIABLES
    locRev,      \* which revision of SourceLocation is exercised
    locInput,    \* the value or the text the run started from
    locText,     \* the text currently held (wire form)
    locResult,   \* the last result of SourceLocation::deserialize
    locFirst,    \* the result of the first deserialize of a text run
    locPc        \* position of the run

locVars == <<locRev, locInput, locText, locResult, locFirst, locPc>>

VARIABLES
    elRev,         \* which revision of ElementaryType is exercised
    elInput,       \* the value or the text the run started from
    elText,        \* the text currently held (wire form)
    elResult,      \* the last result of ElementaryType::deserialize
    elFirst,       \* the result of the first deserialize of a text run
    elProbe,       \* a second text decoded by the same caller
    elProbeResult, \* the result of decoding the second text
    elPc           \* position of the run

elVars == <<elRev, elInput, elText, elResult, elFirst, elProbe,
            elProbeResult, elPc>>

VARIABLES
    docRoot,    \* the Rust type the document is read as
    docInput,   \* the JSON document the run started from
    docJson,    \* the JSON currently held
    docResult,  \* the last result of from_str
    docFirst,   \* the result of the first from_str of the run
    docFocus,   \* the node the document was built around, and its place
    docReport,  \* what find_deserialization_error returned for the document
    docPc       \* position of the run

docVars ==
    <<docRoot, docInput, docJson, docResult, docFirst, docFocus, docReport,
      docPc>>

VARIABLES
    inRev,          \* which revision of StandardJsonInput is exercised
    inLanguage,     \* self.language
    inSources,      \* self.sources: the entries of the map
    inModelChecker, \* self.settings.model_checker
    inLast,         \* for each name, the source the last call under it gave
    inCalls,        \* the number of builder calls made
    inJson          \* the last serde_json::to_value(&input), if any

inVars ==
    <<inRev, inLanguage, inSources, inModelChecker, inLast, inCalls, inJson>>

vars == <<locVars, elVars, docVars, inVars>>

----------------------------------------------------------------------------
(* Characters and integer parsing (core::num, <usize as FromStr>)          *)

Digits == <<"0", "1", "2", "3", "4", "5", "6", "7", "8", "9">>

IsDigit(c) == \E i \in 1..10 : Digits[i] = c

DigitVal(c) == (CHOOSE i \in 1..10 : Digits[i] = c) - 1

\* usize is target-dependent; it is modelled at the widest width whose
\* values the checker represents exactly (31 bits).
USIZE_MAX == 2147483647

U16_MAX == 65535

U8_MAX == 255

ParseOk(n) == [ok |-> TRUE, val |-> n, cause |-> "none"]

ParseErr(c) == [ok |-> FALSE, val |-> 0, cause |-> c]

\* The digit loop of from_str_radix: a non-digit is InvalidDigit, a value
\* above the maximum of the type is PosOverflow, whichever comes first.
RECURSIVE ParseDigits(_, _, _)
ParseDigits(ds, acc, max) ==
    IF ds = <<>> THEN ParseOk(acc)
    ELSE IF ~IsDigit(Head(ds)) THEN ParseErr("InvalidDigit")
    ELSE IF acc > (max - DigitVal(Head(ds))) \div 10 THEN ParseErr("PosOverflow")
    ELSE ParseDigits(Tail(ds), acc * 10 + DigitVal(Head(ds)), max)

\* str::parse for an unsigned type: empty is Empty, a lone sign is
\* InvalidDigit, one leading '+' is stripped, '-' is not a digit.
ParseUnsigned(s, max) ==
    IF s = <<>> THEN ParseErr("Empty")
    ELSE IF Len(s) = 1 /\ Head(s) \in {"+", "-"} THEN ParseErr("InvalidDigit")
    ELSE IF Head(s) = "+" THEN ParseDigits(Tail(s), 0, max)
    ELSE ParseDigits(s, 0, max)

\* Display for an unsigned integer: decimal, no sign, no padding.
RECURSIVE FormatNat(_)
FormatNat(n) ==
    IF n < 10 THEN <<Digits[n + 1]>>
    ELSE FormatNat(n \div 10) \o <<Digits[(n % 10) + 1]>>

\* str::split(sep): the parts between separators, empty parts kept.
RECURSIVE Split(_, _)
Split(s, sep) ==
    IF \A i \in 1..Len(s) : s[i] # sep THEN <<s>>
    ELSE LET i == CHOOSE k \in 1..Len(s) :
                      s[k] = sep /\ \A j \in 1..(k - 1) : s[j] # sep
         IN  <<SubSeq(s, 1, i - 1)>> \o Split(SubSeq(s, i + 1, Len(s)), sep)

StartsWith(s, p) == Len(s) >= Len(p) /\ SubSeq(s, 1, Len(p)) = p

----------------------------------------------------------------------------
(* SourceLocation (ast/common.rs and ast.rs)                                *)

LocOk(o, l, i) ==
    [ok |-> TRUE, offset |-> o, length |-> l, source_index |-> i,
     kind |-> "none", field |-> "none", cause |-> "none"]

LocErr(k, f, c) ==
    [ok |-> FALSE, offset |-> 0, length |-> 0, source_index |-> 0,
     kind |-> k, field |-> f, cause |-> c]

\* Variant: a zero source index is left out of the text.
SourceLocation_serialize_omit_zero(v) ==
    IF v.source_index = 0
    THEN FormatNat(v.offset) \o <<":">> \o FormatNat(v.length)
    ELSE FormatNat(v.offset) \o <<":">> \o FormatNat(v.length) \o <<":">>
             \o FormatNat(v.source_index)

SourceLocation_serialize(v) ==
    FormatNat(v.offset) \o <<":">> \o FormatNat(v.length) \o <<":">>
        \o FormatNat(v.source_index)

\* Variant: the part count is only checked from below.
SourceLocation_deserialize_lenient(s) ==
    LET parts == Split(s, ":") IN
    IF Len(parts) < 3 THEN LocErr("invalid source location format", "none", "none")
    ELSE LET offset == ParseUnsigned(parts[1], USIZE_MAX)
             length == ParseUnsigned(parts[2], USIZE_MAX)
             source_index == ParseUnsigned(parts[3], USIZE_MAX)
         IN  IF ~offset.ok THEN LocErr("invalid field", "offset", offset.cause)
             ELSE IF ~length.ok THEN LocErr("invalid field", "length", length.cause)
             ELSE IF ~source_index.ok
                  THEN LocErr("invalid field", "source index", source_index.cause)
             ELSE LocOk(offset.val, length.val, source_index.val)

SourceLocation_deserialize(s) ==
    LET parts == Split(s, ":") IN
    IF Len(parts) # 3 THEN LocErr("invalid source location format", "none", "none")
    ELSE LET offset == ParseUnsigned(parts[1], USIZE_MAX)
             length == ParseUnsigned(parts[2], USIZE_MAX)
             source_index == ParseUnsigned(parts[3], USIZE_MAX)
         IN  IF ~offset.ok THEN LocErr("invalid field", "offset", offset.cause)
             ELSE IF ~length.ok THEN LocErr("invalid field", "length", length.cause)
             ELSE IF ~source_index.ok
                  THEN LocErr("invalid field", "source index", source_index.cause)
             ELSE LocOk(offset.val, length.val, source_index.val)

\* Variant: offset and length change places in the text.
ast_SourceLocation_serialize_swapped(v) ==
    FormatNat(v.length) \o <<":">> \o FormatNat(v.offset) \o <<":">>
        \o FormatNat(v.source_index)

ast_SourceLocation_serialize(v) ==
    FormatNat(v.offset) \o <<":">> \o FormatNat(v.length) \o <<":">>
        \o FormatNat(v.source_index)

ast_SourceLocation_deserialize(s) ==
    LET parts == Split(s, ":") IN
    IF Len(parts) # 3 THEN LocErr("invalid source location", "none", "none")
    ELSE LET offset == ParseUnsigned(parts[1], USIZE_MAX)
             length == ParseUnsigned(parts[2], USIZE_MAX)
             source_index == ParseUnsigned(parts[3], USIZE_MAX)
         IN  IF ~offset.ok THEN LocErr("invalid field", "offset", offset.cause)
             ELSE IF ~length.ok THEN LocErr("invalid field", "length", length.cause)
             ELSE IF ~source_index.ok
                  THEN LocErr("invalid field", "source_index", source_index.cause)
             ELSE LocOk(offset.val, length.val, source_index.val)

\* The two revisions of the codec that the repository holds.
LocRevisions == {"ast/common.rs", "ast.rs"}

encode_location(rev, v) ==
    IF rev = "ast.rs" THEN ast_SourceLocation_serialize(v)
    ELSE SourceLocation_serialize(v)

decode_location(rev, s) ==
    IF rev = "ast.rs" THEN ast_SourceLocation_deserialize(s)
    ELSE SourceLocation_deserialize(s)

----------------------------------------------------------------------------
(* ElementaryType (ast/types.rs and ast.rs)                                 *)

T_uint == <<"u","i","n","t">>

T_int == <<"i","n","t">>

T_bytes == <<"b","y","t","e","s">>

T_ufixed == <<"u","f","i","x","e","d">>

T_fixed == <<"f","i","x","e","d">>

T_address == <<"a","d","d","r","e","s","s">>

T_payable == <<"p","a","y","a","b","l","e">>

T_bool == <<"b","o","o","l">>

T_string == <<"s","t","r","i","n","g">>

\* A value of the enum: the variant and its (up to two) numbers.
Elem(tag, a, b) ==
    [ok |-> TRUE, tag |-> tag, a |-> a, b |-> b,
     err |-> "none", cause |-> "none", got |-> <<>>]

\* A failure: the message prefix, the integer-parse cause behind it (if
\* any) and the text the message quotes (if any).
ElemErr(e, c, g) ==
    [ok |-> FALSE, tag |-> "none", a |-> 0, b |-> 0,
     err |-> e, cause |-> c, got |-> g]

\* str::strip_prefix: the rest of the text after the prefix.
StripPrefix(s, p) == SubSeq(s, Len(p) + 1, Len(s))

\* str::split_once('x'): the texts before and after the first 'x'.
HasX(s) == \E i \in 1..Len(s) : s[i] = "x"

FirstX(s) == CHOOSE i \in 1..Len(s) : s[i] = "x" /\ \A j \in 1..(i - 1) : s[j] # "x"

deserialize_uint(s) ==
    IF ~StartsWith(s, T_uint) THEN ElemErr("not a uint type", "none", s)
    ELSE LET rest == StripPrefix(s, T_uint)
             bits == IF rest = <<>> THEN ParseOk(256) ELSE ParseUnsigned(rest, U16_MAX)
         IN  IF ~bits.ok THEN ElemErr("invalid integer size", bits.cause, <<>>)
             ELSE Elem("Uint", bits.val, 0)

\* Variant: no default width, the suffix is always parsed.
deserialize_int_no_default(s) ==
    IF ~StartsWith(s, T_int) THEN ElemErr("not an int type", "none", s)
    ELSE LET rest == StripPrefix(s, T_int)
             bits == ParseUnsigned(rest, U16_MAX)
         IN  IF ~bits.ok THEN ElemErr("invalid integer size", bits.cause, <<>>)
             ELSE Elem("Int", bits.val, 0)

deserialize_int(s) ==
    IF ~StartsWith(s, T_int) THEN ElemErr("not an int type", "none", s)
    ELSE LET rest == StripPrefix(s, T_int)
             bits == IF rest = <<>> THEN ParseOk(256) ELSE ParseUnsigned(rest, U16_MAX)
         IN  IF ~bits.ok THEN ElemErr("invalid integer size", bits.cause, <<>>)
             ELSE Elem("Int", bits.val, 0)

\* Variant: a suffix that does not parse falls back to dynamic bytes.
deserialize_fixed_bytes_fallback(s) ==
    IF ~StartsWith(s, T_bytes) THEN ElemErr("not a bytes type", "none", s)
    ELSE LET size == ParseUnsigned(StripPrefix(s, T_bytes), U16_MAX)
         IN  IF ~size.ok THEN Elem("Bytes", 0, 0)
             ELSE Elem("FixedBytes", size.val, 0)

deserialize_fixed_bytes(s) ==
    IF ~StartsWith(s, T_bytes) THEN ElemErr("not a bytes type", "none", s)
    ELSE LET size == ParseUnsigned(StripPrefix(s, T_bytes), U16_MAX)
         IN  IF ~size.ok THEN ElemErr("invalid bytes size", size.cause, <<>>)
             ELSE Elem("FixedBytes", size.val, 0)

\* Variant: a fractional part that does not parse is reported with the
\* message of the bytes family.
deserialize_ufixed_bytes_message(s) ==
    IF ~StartsWith(s, T_ufixed) THEN ElemErr("not a ufixed type", "none", s)
    ELSE LET rest == StripPrefix(s, T_ufixed) IN
         IF ~HasX(rest) THEN ElemErr("invalid ufixed format", "none", s)
         ELSE LET total == ParseUnsigned(SubSeq(rest, 1, FirstX(rest) - 1), U8_MAX)
                  fractional == ParseUnsigned(
                      SubSeq(rest, FirstX(rest) + 1, Len(rest)), U8_MAX)
              IN  IF ~total.ok THEN ElemErr("invalid total bits", total.cause, <<>>)
                  ELSE IF ~fractional.ok
                       THEN ElemErr("invalid bytes size", fractional.cause, <<>>)
                  ELSE Elem("Ufixed", total.val, fractional.val)

deserialize_ufixed(s) ==
    IF ~StartsWith(s, T_ufixed) THEN ElemErr("not a ufixed type", "none", s)
    ELSE LET rest == StripPrefix(s, T_ufixed) IN
         IF ~HasX(rest) THEN ElemErr("invalid ufixed format", "none", s)
         ELSE LET total == ParseUnsigned(SubSeq(rest, 1, FirstX(rest) - 1), U8_MAX)
                  fractional == ParseUnsigned(
                      SubSeq(rest, FirstX(rest) + 1, Len(rest)), U8_MAX)
              IN  IF ~total.ok THEN ElemErr("invalid total bits", total.cause, <<>>)
                  ELSE IF ~fractional.ok
                       THEN ElemErr("invalid fractional bits", fractional.cause, <<>>)
                  ELSE Elem("Ufixed", total.val, fractional.val)

deserialize_fixed(s) ==
    IF ~StartsWith(s, T_fixed) THEN ElemErr("not a fixed type", "none", s)
    ELSE LET rest == StripPrefix(s, T_fixed) IN
         IF ~HasX(rest) THEN ElemErr("invalid fixed format", "none", s)
         ELSE LET total == ParseUnsigned(SubSeq(rest, 1, FirstX(rest) - 1), U8_MAX)
                  fractional == ParseUnsigned(
                      SubSeq(rest, FirstX(rest) + 1, Len(rest)), U8_MAX)
              IN  IF ~total.ok THEN ElemErr("invalid total bits", total.cause, <<>>)
                  ELSE IF ~fractional.ok
                       THEN ElemErr("invalid fractional bits", fractional.cause, <<>>)
                  ELSE Elem("Fixed", total.val, fractional.val)

\* <ElementaryType as Deserialize>::deserialize of ast/types.rs: the match
\* arms in source order.
ElementaryType_deserialize(s) ==
    IF s = T_address THEN Elem("Address", 0, 0)
    ELSE IF s = T_payable THEN Elem("Payable", 0, 0)
    ELSE IF s = T_bool THEN Elem("Bool", 0, 0)
    ELSE IF s = T_string THEN Elem("String", 0, 0)
    ELSE IF s = T_bytes THEN Elem("Bytes", 0, 0)
    ELSE IF StartsWith(s, T_uint) THEN deserialize_uint(s)
    ELSE IF StartsWith(s, T_int) THEN deserialize_int(s)
    ELSE IF StartsWith(s, T_bytes) THEN deserialize_fixed_bytes(s)
    ELSE IF StartsWith(s, T_ufixed) THEN deserialize_ufixed(s)
    ELSE IF StartsWith(s, T_fixed) THEN deserialize_fixed(s)
    ELSE ElemErr("unknown elementary type", "none", s)

\* Variant: a zero-width integer is written without its suffix.
ElementaryType_serialize_bare_zero(v) ==
    CASE v.tag = "Uint" -> IF v.a = 0 THEN T_uint ELSE T_uint \o FormatNat(v.a)
      [] v.tag = "Int" -> IF v.a = 0 THEN T_int ELSE T_int \o FormatNat(v.a)
      [] v.tag = "Address" -> T_address
      [] v.tag = "Payable" -> T_payable
      [] v.tag = "Bool" -> T_bool
      [] v.tag = "String" -> T_string
      [] v.tag = "Bytes" -> T_bytes
      [] v.tag = "FixedBytes" -> T_bytes \o FormatNat(v.a)
      [] v.tag = "Ufixed" -> T_ufixed \o FormatNat(v.a) \o <<"x">> \o FormatNat(v.b)
      [] v.tag = "Fixed" -> T_fixed \o FormatNat(v.a) \o <<"x">> \o FormatNat(v.b)

ElementaryType_serialize(v) ==
    CASE v.tag = "Uint" -> T_uint \o FormatNat(v.a)
      [] v.tag = "Int" -> T_int \o FormatNat(v.a)
      [] v.tag = "Address" -> T_address
      [] v.tag = "Payable" -> T_payable
      [] v.tag = "Bool" -> T_bool
      [] v.tag = "String" -> T_string
      [] v.tag = "Bytes" -> T_bytes
      [] v.tag = "FixedBytes" -> T_bytes \o FormatNat(v.a)
      [] v.tag = "Ufixed" -> T_ufixed \o FormatNat(v.a) \o <<"x">> \o FormatNat(v.b)
      [] v.tag = "Fixed" -> T_fixed \o FormatNat(v.a) \o <<"x">> \o FormatNat(v.b)

\* <ElementaryType as Deserialize>::deserialize of ast.rs: the integer-parse
\* error is passed on as it is, a zero bytes size is dynamic bytes, and
\* there is no arm for ufixed or fixed.
ast_ElementaryType_deserialize(s) ==
    IF s = T_address THEN Elem("Address", 0, 0)
    ELSE IF s = T_payable THEN Elem("Payable", 0, 0)
    ELSE IF s = T_bool THEN Elem("Bool", 0, 0)
    ELSE IF s = T_string THEN Elem("String", 0, 0)
    ELSE IF s = T_bytes THEN Elem("Bytes", 0, 0)
    ELSE IF StartsWith(s, T_uint) THEN
        LET bits == IF Len(s) = 4 THEN ParseOk(256)
                    ELSE ParseUnsigned(SubSeq(s, 5, Len(s)), U16_MAX)
        IN  IF ~bits.ok THEN ElemErr("", bits.cause, <<>>)
            ELSE Elem("Uint", bits.val, 0)
    ELSE IF StartsWith(s, T_int) THEN
        LET bits == IF Len(s) = 3 THEN ParseOk(256)
                    ELSE ParseUnsigned(SubSeq(s, 4, Len(s)), U16_MAX)
        IN  IF ~bits.ok THEN ElemErr("", bits.cause, <<>>)
            ELSE Elem("Int", bits.val, 0)
    ELSE IF StartsWith(s, T_bytes) THEN
        LET size == IF Len(s) = 5 THEN ParseOk(0)
                    ELSE ParseUnsigned(SubSeq(s, 6, Len(s)), U16_MAX)
        IN  IF ~size.ok THEN ElemErr("", size.cause, <<>>)
            ELSE IF size.val = 0 THEN Elem("Bytes", 0, 0)
            ELSE Elem("FixedBytes", size.val, 0)
    ELSE ElemErr("unknown elementary type", "none", s)

ast_ElementaryType_serialize(v) ==
    CASE v.tag = "Uint" -> T_uint \o FormatNat(v.a)
      [] v.tag = "Int" -> T_int \o FormatNat(v.a)
      [] v.tag = "Address" -> T_address
      [] v.tag = "Payable" -> T_payable
      [] v.tag = "Bool" -> T_bool
      [] v.tag = "String" -> T_string
      [] v.tag = "Bytes" -> T_bytes
      [] v.tag = "FixedBytes" -> T_bytes \o FormatNat(v.a)
      [] v.tag = "Ufixed" -> T_ufixed \o FormatNat(v.a) \o <<"x">> \o FormatNat(v.b)
      [] v.tag = "Fixed" -> T_fixed \o FormatNat(v.a) \o <<"x">> \o FormatNat(v.b)

ElemRevisions == {"ast/types.rs", "ast.rs"}

encode_elementary(rev, v) ==
    IF rev = "ast.rs" THEN ast_ElementaryType_serialize(v)
    ELSE ElementaryType_serialize(v)

decode_elementary(rev, s) ==
    IF rev = "ast.rs" THEN ast_ElementaryType_deserialize(s)
    ELSE ElementaryType_deserialize(s)

----------------------------------------------------------------------------
(* Inputs of the source-location runs                                       *)

MaxLocTextLen == 6

LocAlphabet == {"0", "7", ":", "+", "-", " "}

LocFieldValues == {0, 1, 8, 101, 638, USIZE_MAX}

LocValues ==
    {LocOk(o, l, i) : o \in LocFieldValues, l \in LocFieldValues,
                      i \in LocFieldValues}

LocExampleTexts ==
    { <<"6","3","8",":","8">>,
      <<"6","3","8",":","8",":","1","0","1",":","e","x","t","r","a">>,
      <<"a","b","c",":","8",":","1","0","1">>,
      <<"6","3","8",":","x","y","z",":","1","0","1">>,
      <<"6","3","8",":","8",":","a","b","c">>,
      <<"6","3","8",":","8",":","1","0","1">>,
      <<"+","6","3","8",":","8",":","1","0","1">>,
      <<"0","6","3","8",":","0","8",":","1","0","1">>,
      <<" ","6","3","8",":","8",":","1","0","1">>,
      <<"6","3","8",":","8",":","1","0","1"," ">>,
      <<"6","3","8",":","8",":","-","1">>,
      <<"2","1","4","7","4","8","3","6","4","7",":","0",":","0">>,
      <<"2","1","4","7","4","8","3","6","4","8",":","0",":","0">>,
      <<"0",":","9","9","9","9","9","9","9","9","9","9","9",":","0">> }

LocTexts ==
    UNION {[1..k -> LocAlphabet] : k \in 0..MaxLocTextLen} \cup LocExampleTexts

NoLoc == LocErr("none", "none", "none")

----------------------------------------------------------------------------
(* Inputs of the elementary-type runs                                       *)

MaxElSuffixLen == 3

MaxSmallBits == 40

ElSuffixAlphabet == {"0", "2", "5", "6", "8", "x", "+"}

ElPrefixes ==
    {<<>>, T_uint, T_int, T_bytes, T_ufixed, T_fixed, T_address, T_payable,
     T_bool, T_string, <<"u","i","n">>}

ElBits == (0..MaxSmallBits) \cup {255, 256, 257, U16_MAX}

ElFixedBits == {0, 8, 18, 128, U8_MAX}

ElemValues ==
    {Elem(t, n, 0) : t \in {"Uint", "Int", "FixedBytes"}, n \in ElBits}
    \cup {Elem(t, a, b) : t \in {"Ufixed", "Fixed"}, a \in ElFixedBits,
                           b \in ElFixedBits}
    \cup {Elem(t, 0, 0) : t \in {"Address", "Payable", "Bool", "String", "Bytes"}}

ElExampleTexts ==
    { T_uint \o <<"9","9","9","9","9","9","9","9","9","9">>,
      T_uint \o <<"a","b","c">>,
      T_int \o <<"a","b","c">>,
      T_bytes \o <<"a","b","c">>,
      T_ufixed \o <<"2","5","6","x","2","5","6">>,
      T_ufixed \o <<"a","b","c","x","d","e","f">>,
      T_fixed \o <<"2","5","6","x","2","5","6">>,
      T_ufixed \o <<"1","2","8","x","1","8">>,
      T_fixed \o <<"1","2","8","x","1","8">>,
      T_uint \o <<"7">>, T_uint \o <<"1","2","8">>,
      T_int \o <<"6","5","5","3","5">>, T_int \o <<"6","5","5","3","6">>,
      T_bytes \o <<"3","3">>, T_bytes \o <<"3","2">>, T_bytes \o <<"1">>,
      T_uint \o <<" ","8">>, T_uint \o <<"-","8">>,
      <<"U","i","n","t","8">>, <<"i","n","t","e","g","e","r">> }

ElTexts ==
    {p \o x : p \in ElPrefixes,
              x \in UNION {[1..k -> ElSuffixAlphabet] : k \in 0..MaxElSuffixLen}}
    \cup ElExampleTexts

\* The second texts a caller compares an error with: one rejected text of
\* each family and each kind of suffix failure.
ElProbeTexts ==
    { T_uint \o <<"a","b","c">>, T_int \o <<"a","b","c">>,
      T_bytes \o <<"a","b","c">>,
      T_ufixed \o <<"8">>, T_fixed \o <<"8">>,
      T_ufixed \o <<"x","8">>, T_fixed \o <<"x","8">>,
      T_ufixed \o <<"8","x">>, T_fixed \o <<"8","x">> }

NoElem == ElemErr("none", "none", <<>>)

----------------------------------------------------------------------------
(* JSON values (serde_json::Value) and decoded Rust values are trees of    *)
(* one shape: a tag, a boolean, an integer, a string and a list of named   *)
(* children; the parts a tag does not use stay at their zero.  A string is *)
(* a sequence of tokens: a scalar text is spelled one character per token, *)
(* a name is one token.  An object lists its members in document order.    *)

Node(t, b, n, s, items) ==
    [t |-> t, b |-> b, n |-> n, s |-> s, items |-> items]

Member(k, j) == [k |-> k, v |-> j]

Unnamed(xs) == <<>> \o [i \in 1..Len(xs) |-> Member("", xs[i])]

Children(x) == <<>> \o [i \in 1..Len(x.items) |-> x.items[i].v]

JNull == Node("null", FALSE, 0, <<>>, <<>>)

JBool(b) == Node("bool", b, 0, <<>>, <<>>)

JNum(n) == Node("num", FALSE, n, <<>>, <<>>)

JStr(s) == Node("str", FALSE, 0, s, <<>>)

JArr(a) == Node("arr", FALSE, 0, <<>>, Unnamed(a))

JObj(ms) == Node("obj", FALSE, 0, <<>>, ms)

(* Decoded values, tagged with the Rust type or variant they inhabit.      *)
VInt(n) == Node("i64", FALSE, n, <<>>, <<>>)

VBool(b) == Node("bool", b, 0, <<>>, <<>>)

VString(s) == Node("String", FALSE, 0, s, <<>>)

None == Node("None", FALSE, 0, <<>>, <<>>)

Some(v) == Node("Some", FALSE, 0, <<>>, <<Member("", v)>>)

VVec(xs) == Node("Vec", FALSE, 0, <<>>, Unnamed(xs))

VMap(ms) == Node("Map", FALSE, 0, <<>>, ms)

VStruct(name, ms) == Node(name, FALSE, 0, <<>>, ms)

VUnit(name, variant) == Node(name, FALSE, 0, <<variant>>, <<>>)

VValue(j) == Node("Value", FALSE, 0, <<>>, <<Member("", j)>>)

VLocation(l) ==
    Node("SourceLocation", FALSE, 0, <<>>,
         <<Member("offset", VInt(l.offset)), Member("length", VInt(l.length)),
           Member("source_index", VInt(l.source_index))>>)

LocationOf(v) == LocOk(v.items[1].v.n, v.items[2].v.n, v.items[3].v.n)

VElementary(e) ==
    Node("ElementaryType", FALSE, 0, <<e.tag>>, Unnamed(<<VInt(e.a), VInt(e.b)>>))

ElementaryOf(v) == Elem(v.s[1], v.items[1].v.n, v.items[2].v.n)

(* PartialEq of the decoded values: structural, except that a HashMap      *)
(* compares as a set of entries.                                           *)
RECURSIVE ValueEq(_, _)
ValueEq(x, y) ==
    /\ x.t = y.t /\ x.b = y.b /\ x.n = y.n /\ x.s = y.s
    /\ Len(x.items) = Len(y.items)
    /\ IF x.t = "Map"
       THEN \A p \in 1..Len(x.items) : \E q \in 1..Len(y.items) :
               /\ x.items[p].k = y.items[q].k
               /\ ValueEq(x.items[p].v, y.items[q].v)
       ELSE \A p \in 1..Len(x.items) :
               /\ x.items[p].k = y.items[p].k
               /\ ValueEq(x.items[p].v, y.items[p].v)

(* Result<T, serde_json::Error>: the error keeps its message kind, the     *)
(* thing the message names and the path serde_path_to_error would report.  *)
NoError == [msg |-> "", what |-> <<>>, path |-> <<>>]

Ok(v) == [ok |-> TRUE, v |-> v, err |-> NoError]

Fail(msg, what) ==
    [ok |-> FALSE, v |-> None,
     err |-> [msg |-> msg, what |-> what, path |-> <<>>]]

Key(k) == [key |-> k, idx |-> -1]

Idx(i) == [key |-> "", idx |-> i]

At(seg, r) ==
    IF r.ok THEN r ELSE [r EXCEPT !.err.path = <<seg>> \o @]

ResultEq(r, q) ==
    /\ r.ok = q.ok
    /\ r.err = q.err
    /\ ValueEq(r.v, q.v)

(* Field attributes of the serde derive: the member name after rename, an  *)
(* alias, the field type, #[serde(default)] and skip_serializing_if =      *)
(* "Option::is_none".                                                      *)
Fld(key, ty) ==
    [key |-> key, alias |-> "", ty |-> ty, dflt |-> FALSE, skip |-> FALSE]

FldAlias(key, alias, ty) ==
    [key |-> key, alias |-> alias, ty |-> ty, dflt |-> FALSE, skip |-> FALSE]

FldDefault(key, ty) ==
    [key |-> key, alias |-> "", ty |-> ty, dflt |-> TRUE, skip |-> FALSE]

FldSkip(key, ty) ==
    [key |-> key, alias |-> "", ty |-> ty, dflt |-> FALSE, skip |-> TRUE]

TagKey == "nodeType"

----------------------------------------------------------------------------
(* The node catalog of ast.rs, then the records of the ast/ directory.     *)

(* The records of abi.rs.                                                  *)
AbiStructs ==
    {"abi_Function", "abi_Constructor", "abi_Receive", "abi_Fallback",
     "abi_Event", "abi_Error", "abi_Param", "abi_EventParam", "abi_Component"}

AbiFields(n) ==
    CASE n = "abi_Function" ->  \* abi.rs 70-84
            << Fld("name", <<"String">>),
               Fld("inputs", <<"Vec", "Struct", "abi_Param">>),
               Fld("outputs", <<"Vec", "Struct", "abi_Param">>),
               Fld("stateMutability", <<"Unit", "abi_StateMutability">>) >>
      [] n = "abi_Constructor" ->  \* abi.rs 87-95
            << Fld("inputs", <<"Vec", "Struct", "abi_Param">>),
               Fld("stateMutability", <<"Unit", "abi_StateMutability">>) >>
      [] n = "abi_Receive" ->  \* abi.rs 100-105
            << Fld("stateMutability", <<"Unit", "abi_StateMutability">>) >>
      [] n = "abi_Fallback" ->  \* abi.rs 110-115
            << Fld("stateMutability", <<"Unit", "abi_StateMutability">>) >>
      [] n = "abi_Event" ->  \* abi.rs 118-128
            << Fld("name", <<"String">>),
               Fld("inputs", <<"Vec", "Struct", "abi_EventParam">>),
               Fld("anonymous", <<"bool">>) >>
      [] n = "abi_Error" ->  \* abi.rs 131-138
            << Fld("name", <<"String">>),
               Fld("inputs", <<"Vec", "Struct", "abi_Param">>) >>
      [] n = "abi_Param" ->  \* abi.rs 141-156
            << Fld("name", <<"String">>),
               Fld("type", <<"String">>),
               Fld("components", <<"Option", "Vec", "Struct", "abi_Component">>),
               FldDefault("internalType", <<"Option", "String">>) >>
      [] n = "abi_EventParam" ->  \* abi.rs 162-180
            << Fld("name", <<"String">>),
               Fld("type", <<"String">>),
               Fld("components", <<"Option", "Vec", "Struct", "abi_Component">>),
               Fld("indexed", <<"bool">>),
               FldDefault("internalType", <<"Option", "String">>) >>
      [] n = "abi_Component" ->  \* abi.rs 186-201
            << Fld("name", <<"String">>),
               Fld("type", <<"String">>),
               Fld("components", <<"Option", "Vec", "Struct", "abi_Component">>),
               FldDefault("internalType", <<"Option", "String">>) >>

(* AbiItem, tagged by "type": the tag value and the record of the variant. *)
AbiTagKey == "type"

AbiItemVariants ==
    [function |-> "abi_Function",
     constructor |-> "abi_Constructor",
     receive |-> "abi_Receive",
     fallback |-> "abi_Fallback",
     event |-> "abi_Event",
     error |-> "abi_Error"]

(* The members of each struct, in declaration order.                      *)
StructFields(n) ==
    CASE n = "SourceUnit" ->  \* ast.rs 15-25
            << Fld("id", <<"i64">>),
               Fld("absolutePath", <<"String">>),
               FldDefault("exportedSymbols", <<"Map", "Vec", "i64">>),
               Fld("src", <<"SourceLocation">>),
               Fld("nodes", <<"Vec", "Enum", "SourceUnitNode">>),
               Fld("license", <<"Option", "String">>) >>
      [] n = "TypeDescriptions" ->  \* ast.rs 216-222
            << FldSkip("typeIdentifier", <<"Option", "String">>),
               FldSkip("typeString", <<"Option", "String">>) >>
      [] n = "CommonType" ->  \* ast.rs 225-231
            << Fld("typeIdentifier", <<"String">>),
               Fld("typeString", <<"String">>) >>
      [] n = "ContractDefinition" ->  \* ast.rs 318-350
            << Fld("id", <<"i64">>),
               Fld("name", <<"String">>),
               Fld("contractKind", <<"Unit", "ContractKind">>),
               Fld("abstract", <<"BoolOrInt">>),
               Fld("fullyImplemented", <<"BoolOrInt">>),
               Fld("linearizedBaseContracts", <<"Vec", "i64">>),
               FldDefault("nodes", <<"Vec", "Enum", "ContractDefinitionNode">>),
               Fld("scope", <<"Option", "i64">>),
               Fld("src", <<"SourceLocation">>),
               Fld("documentation", <<"Option", "Documentation">>),
               Fld("baseContracts", <<"Option", "Vec", "Struct", "InheritanceSpecifier">>),
               Fld("canonicalName", <<"Option", "String">>),
               Fld("contractDependencies", <<"Option", "Vec", "i64">>),
               Fld("nameLocation", <<"Option", "String">>),
               Fld("usedErrors", <<"Option", "Vec", "i64">>),
               Fld("usedEvents", <<"Option", "Vec", "i64">>) >>
      [] n = "VariableDeclaration" ->  \* ast.rs 422-449
            << Fld("id", <<"i64">>),
               Fld("name", <<"String">>),
               Fld("typeName", <<"Option", "Enum", "TypeName">>),
               Fld("src", <<"SourceLocation">>),
               Fld("nameLocation", <<"Option", "String">>),
               Fld("visibility", <<"Unit", "Visibility">>),
               Fld("stateMutability", <<"Option", "Unit", "StateMutability">>),
               Fld("mutability", <<"Option", "Unit", "Mutability">>),
               Fld("stateVariable", <<"Option", "bool">>),
               Fld("storageLocation", <<"Option", "Unit", "StorageLocation">>),
               Fld("constant", <<"Option", "bool">>),
               Fld("immutable", <<"Option", "bool">>),
               Fld("indexed", <<"Option", "bool">>),
               Fld("value", <<"Option", "Enum", "Expression">>),
               Fld("documentation", <<"Option", "Documentation">>),
               Fld("typeDescriptions", <<"Struct", "TypeDescriptions">>),
               Fld("overrides", <<"Option", "Struct", "OverrideSpecifier">>),
               Fld("scope", <<"Option", "i64">>) >>
      [] n = "BinaryOperation" ->  \* ast.rs 452-473
            << Fld("id", <<"i64">>),
               Fld("leftExpression", <<"Enum", "Expression">>),
               Fld("rightExpression", <<"Enum", "Expression">>),
               Fld("operator", <<"String">>),
               Fld("commonType", <<"Struct", "CommonType">>),
               Fld("src", <<"SourceLocation">>),
               Fld("isConstant", <<"bool">>),
               Fld("isLValue", <<"bool">>),
               Fld("isPure", <<"bool">>),
               Fld("lValueRequested", <<"bool">>),
               Fld("typeDescriptions", <<"Struct", "TypeDescriptions">>) >>
      [] n = "FunctionCall" ->  \* ast.rs 476-501
            << Fld("id", <<"i64">>),
               Fld("expression", <<"Enum", "FunctionCallExpression">>),
               Fld("arguments", <<"Vec", "Enum", "Expression">>),
               Fld("names", <<"Vec", "String">>),
               Fld("kind", <<"String">>),
               Fld("src", <<"SourceLocation">>),
               Fld("tryCall", <<"bool">>),
               FldDefault("nameLocations", <<"Option", "Vec", "String">>),
               Fld("isConstant", <<"bool">>),
               Fld("isLValue", <<"bool">>),
               Fld("isPure", <<"bool">>),
               Fld("lValueRequested", <<"bool">>),
               Fld("typeDescriptions", <<"Struct", "TypeDescriptions">>),
               Fld("argumentTypes", <<"Option", "Vec", "Struct", "TypeDescriptions">>) >>
      [] n = "IfStatement" ->  \* ast.rs 504-513
            << Fld("id", <<"i64">>),
               Fld("condition", <<"Enum", "Expression">>),
               Fld("trueBody", <<"Enum", "Statement">>),
               Fld("falseBody", <<"Option", "Enum", "Statement">>),
               Fld("src", <<"SourceLocation">>) >>
      [] n = "Block" ->  \* ast.rs 516-523
            << Fld("id", <<"i64">>),
               Fld("statements", <<"Vec", "Enum", "Statement">>),
               Fld("src", <<"SourceLocation">>),
               FldDefault("nodes", <<"Vec", "Enum", "BlockNode">>) >>
      [] n = "Conditional" ->  \* ast.rs 526-545
            << Fld("id", <<"i64">>),
               Fld("condition", <<"Enum", "Expression">>),
               Fld("trueExpression", <<"Enum", "Expression">>),
               Fld("falseExpression", <<"Enum", "Expression">>),
               Fld("isConstant", <<"bool">>),
               Fld("isLValue", <<"bool">>),
               Fld("isPure", <<"bool">>),
               Fld("lValueRequested", <<"bool">>),
               Fld("src", <<"SourceLocation">>),
               Fld("typeDescriptions", <<"Struct", "TypeDescriptions">>) >>
      [] n = "VariableDeclarationStatement" ->  \* ast.rs 548-557
            << Fld("id", <<"i64">>),
               Fld("assignments", <<"Vec", "Option", "i64">>),
               Fld("declarations", <<"Vec", "Option", "Struct", "VariableDeclaration">>),
               Fld("initialValue", <<"Option", "Enum", "Expression">>),
               Fld("src", <<"SourceLocation">>),
               Fld("documentation", <<"Option", "Documentation">>) >>
      [] n = "FunctionDefinition" ->  \* ast.rs 560-587
            << Fld("id", <<"i64">>),
               Fld("name", <<"String">>),
               Fld("virtual", <<"bool">>),
               Fld("kind", <<"Unit", "FunctionKind">>),
               Fld("visibility", <<"Unit", "Visibility">>),
               Fld("stateMutability", <<"Unit", "StateMutability">>),
               Fld("body", <<"Option", "Struct", "Block">>),
               Fld("parameters", <<"Struct", "ParameterList">>),
               Fld("returnParameters", <<"Struct", "ParameterList">>),
               Fld("modifiers", <<"Vec", "Struct", "ModifierInvocation">>),
               Fld("src", <<"SourceLocation">>),
               Fld("scope", <<"i64">>),
               Fld("implemented", <<"bool">>),
               Fld("documentation", <<"Option", "Documentation">>),
               Fld("overrides", <<"Option", "Struct", "OverrideSpecifier">>),
               Fld("baseFunctions", <<"Option", "Vec", "i64">>),
               Fld("functionSelector", <<"Option", "String">>),
               Fld("nameLocation", <<"Option", "String">>),
               FldDefault("nodes", <<"Vec", "Enum", "VariableDeclarationNode">>) >>
      [] n = "MemberAccess" ->  \* ast.rs 590-613
            << Fld("id", <<"i64">>),
               Fld("expression", <<"Enum", "Expression">>),
               Fld("memberName", <<"String">>),
               Fld("memberLocation", <<"Option", "String">>),
               Fld("src", <<"SourceLocation">>),
               Fld("referencedDeclaration", <<"Option", "i64">>),
               Fld("typeDescriptions", <<"Struct", "TypeDescriptions">>),
               Fld("argumentTypes", <<"Option", "Vec", "Struct", "TypeDescriptions">>),
               Fld("isConstant", <<"bool">>),
               Fld("isLValue", <<"bool">>),
               Fld("isPure", <<"bool">>),
               Fld("lValueRequested", <<"bool">>) >>
      [] n = "UnaryOperation" ->  \* ast.rs 616-635
            << Fld("id", <<"i64">>),
               Fld("subExpression", <<"Enum", "Expression">>),
               Fld("operator", <<"String">>),
               FldAlias("isPrefix", "prefix", <<"bool">>),
               Fld("src", <<"SourceLocation">>),
               Fld("typeDescriptions", <<"Struct", "TypeDescriptions">>),
               Fld("isConstant", <<"bool">>),
               Fld("isLValue", <<"bool">>),
               Fld("isPure", <<"bool">>),
               Fld("lValueRequested", <<"bool">>) >>
      [] n = "Assignment" ->  \* ast.rs 638-649
            << Fld("id", <<"i64">>),
               Fld("leftHandSide", <<"Enum", "Expression">>),
               Fld("rightHandSide", <<"Enum", "Expression">>),
               Fld("operator", <<"String">>),
               Fld("src", <<"SourceLocation">>),
               Fld("typeDescriptions", <<"Struct", "TypeDescriptions">>) >>
      [] n = "IndexAccess" ->  \* ast.rs 652-662
            << Fld("id", <<"i64">>),
               Fld("baseExpression", <<"Enum", "Expression">>),
               Fld("indexExpression", <<"Option", "Enum", "Expression">>),
               Fld("src", <<"SourceLocation">>),
               Fld("typeDescriptions", <<"Struct", "TypeDescriptions">>) >>
      [] n = "TupleExpression" ->  \* ast.rs 665-672
            << Fld("id", <<"i64">>),
               Fld("components", <<"Vec", "Option", "Enum", "Expression">>),
               Fld("src", <<"SourceLocation">>),
               Fld("typeDescriptions", <<"Struct", "TypeDescriptions">>) >>
      [] n = "Return" ->  \* ast.rs 675-682
            << Fld("id", <<"i64">>),
               Fld("functionReturnParameters", <<"i64">>),
               Fld("expression", <<"Option", "Enum", "Expression">>),
               Fld("src", <<"SourceLocation">>) >>
      [] n = "UncheckedBlock" ->  \* ast.rs 685-692
            << Fld("id", <<"i64">>),
               Fld("statements", <<"Vec", "Enum", "Statement">>),
               Fld("src", <<"SourceLocation">>),
               FldDefault("nodes", <<"Vec", "Enum", "UncheckedBlockNode">>) >>
      [] n = "ExpressionStatement" ->  \* ast.rs 697-702
            << Fld("id", <<"i64">>),
               Fld("expression", <<"Enum", "Expression">>),
               Fld("src", <<"SourceLocation">>) >>
      [] n = "ForStatement" ->  \* ast.rs 705-715
            << Fld("id", <<"i64">>),
               Fld("initializationExpression", <<"Option", "Enum", "Expression">>),
               Fld("condition", <<"Option", "Enum", "Expression">>),
               Fld("loopExpression", <<"Option", "Enum", "Expression">>),
               Fld("body", <<"Enum", "Statement">>),
               Fld("src", <<"SourceLocation">>) >>
      [] n = "Mapping" ->  \* ast.rs 718-726
            << Fld("id", <<"i64">>),
               Fld("keyType", <<"Enum", "TypeName">>),
               Fld("valueType", <<"Enum", "TypeName">>),
               Fld("src", <<"SourceLocation">>) >>
      [] n = "ArrayTypeName" ->  \* ast.rs 729-736
            << Fld("id", <<"i64">>),
               Fld("baseType", <<"Enum", "TypeName">>),
               Fld("length", <<"Option", "Enum", "Expression">>),
               Fld("src", <<"SourceLocation">>) >>
      [] n = "WhileStatement" ->  \* ast.rs 739-745
            << Fld("id", <<"i64">>),
               Fld("condition", <<"Enum", "Expression">>),
               Fld("body", <<"Enum", "Statement">>),
               Fld("src", <<"SourceLocation">>) >>
      [] n = "ModifierDefinition" ->  \* ast.rs 748-763
            << Fld("id", <<"i64">>),
               Fld("name", <<"String">>),
               Fld("virtual", <<"bool">>),
               Fld("visibility", <<"Unit", "Visibility">>),
               Fld("parameters", <<"Struct", "ParameterList">>),
               Fld("body", <<"Option", "Struct", "Block">>),
               Fld("src", <<"SourceLocation">>),
               Fld("scope", <<"Option", "i64">>),
               Fld("documentation", <<"Option", "Documentation">>),
               Fld("overrides", <<"Option", "Struct", "OverrideSpecifier">>),
               FldDefault("nodes", <<"Vec", "Enum", "ModifierDefinitionNode">>) >>
      [] n = "ModifierInvocation" ->  \* ast.rs 774-783
            << Fld("id", <<"i64">>),
               Fld("kind", <<"Option", "Unit", "ModifierInvocationKind">>),
               Fld("modifierName", <<"Struct", "IdentifierPath">>),
               FldDefault("arguments", <<"Option", "Vec", "Enum", "Expression">>),
               Fld("src", <<"SourceLocation">>) >>
      [] n = "NewExpression" ->  \* ast.rs 786-806
            << Fld("id", <<"i64">>),
               Fld("typeName", <<"Enum", "TypeName">>),
               FldDefault("arguments", <<"Option", "Vec", "Enum", "Expression">>),
               Fld("src", <<"SourceLocation">>),
               Fld("typeDescriptions", <<"Struct", "TypeDescriptions">>),
               Fld("argumentTypes", <<"Option", "Vec", "Struct", "TypeDescriptions">>),
               Fld("isConstant", <<"bool">>),
               Fld("isLValue", <<"bool">>),
               Fld("isPure", <<"bool">>),
               Fld("lValueRequested", <<"bool">>) >>
      [] n = "EnumDefinition" ->  \* ast.rs 809-821
            << Fld("id", <<"i64">>),
               Fld("name", <<"String">>),
               Fld("members", <<"Vec", "Struct", "EnumValue">>),
               Fld("src", <<"SourceLocation">>),
               Fld("scope", <<"Option", "i64">>),
               Fld("documentation", <<"Option", "Documentation">>),
               Fld("canonicalName", <<"Option", "String">>),
               FldDefault("nodes", <<"Vec", "Enum", "EnumDefinitionNode">>) >>
      [] n = "UserDefinedValueTypeDefinition" ->  \* ast.rs 824-837
            << Fld("id", <<"i64">>),
               Fld("name", <<"String">>),
               Fld("src", <<"SourceLocation">>),
               FldDefault("nodes", <<"Vec", "Enum", "UserDefinedValueTypeDefinitionNode">>),
               Fld("canonicalName", <<"Option", "String">>),
               Fld("nameLocation", <<"Option", "String">>),
               Fld("underlyingType", <<"Enum", "TypeName">>) >>
      [] n = "ErrorDefinition" ->  \* ast.rs 840-850
            << Fld("id", <<"i64">>),
               Fld("name", <<"String">>),
               Fld("parameters", <<"Struct", "ParameterList">>),
               Fld("src", <<"SourceLocation">>),
               Fld("scope", <<"Option", "i64">>),
               Fld("documentation", <<"Option", "Documentation">>),
               FldDefault("nodes", <<"Vec", "Enum", "ErrorDefinitionNode">>) >>
      [] n = "EventDefinition" ->  \* ast.rs 853-868
            << Fld("id", <<"i64">>),
               Fld("name", <<"String">>),
               Fld("anonymous", <<"bool">>),
               Fld("eventSelector", <<"Option", "String">>),
               Fld("parameters", <<"Struct", "ParameterList">>),
               Fld("src", <<"SourceLocation">>),
               Fld("scope", <<"Option", "i64">>),
               Fld("nameLocation", <<"Option", "String">>),
               FldDefault("nodes", <<"Vec", "Enum", "EventDefinitionNode">>),
               Fld("documentation", <<"Option", "Documentation">>) >>
      [] n = "FunctionTypeName" ->  \* ast.rs 871-882
            << Fld("id", <<"i64">>),
               Fld("parameterTypes", <<"Vec", "Enum", "TypeName">>),
               Fld("returnParameterTypes", <<"Vec", "Enum", "TypeName">>),
               Fld("visibility", <<"String">>),
               Fld("stateMutability", <<"String">>),
               Fld("src", <<"SourceLocation">>) >>
      [] n = "StructDefinition" ->  \* ast.rs 885-899
            << Fld("id", <<"i64">>),
               Fld("name", <<"String">>),
               Fld("members", <<"Vec", "Struct", "VariableDeclaration">>),
               Fld("src", <<"SourceLocation">>),
               Fld("scope", <<"Option", "i64">>),
               Fld("documentation", <<"Option", "Documentation">>),
               Fld("canonicalName", <<"Option", "String">>),
               Fld("usedInEvents", <<"Option", "bool">>),
               FldDefault("nodes", <<"Vec", "Enum", "StructDefinitionNode">>) >>
      [] n = "TryCatchClause" ->  \* ast.rs 902-911
            << Fld("id", <<"i64">>),
               Fld("kind", <<"String">>),
               Fld("errorName", <<"Option", "String">>),
               Fld("parameters", <<"Option", "Struct", "ParameterList">>),
               Fld("block", <<"Struct", "Block">>),
               Fld("src", <<"SourceLocation">>) >>
      [] n = "TryStatement" ->  \* ast.rs 914-922
            << Fld("id", <<"i64">>),
               Fld("expression", <<"Enum", "Expression">>),
               Fld("returnParameters", <<"Struct", "ParameterList">>),
               Fld("clauses", <<"Vec", "Struct", "TryCatchClause">>),
               Fld("src", <<"SourceLocation">>) >>
      [] n = "ElementaryTypeNameExpression" ->  \* ast.rs 927-937
            << Fld("id", <<"i64">>),
               Fld("typeName", <<"Struct", "ElementaryTypeName">>),
               Fld("src", <<"SourceLocation">>),
               Fld("typeDescriptions", <<"Struct", "TypeDescriptions">>),
               Fld("argumentTypes", <<"Option", "Vec", "Struct", "TypeDescriptions">>) >>
      [] n = "EmitStatement" ->  \* ast.rs 940-946
            << Fld("id", <<"i64">>),
               Fld("eventCall", <<"Struct", "FunctionCall">>),
               Fld("src", <<"SourceLocation">>) >>
      [] n = "InheritanceSpecifier" ->  \* ast.rs 950-958
            << Fld("id", <<"i64">>),
               Fld("baseName", <<"Struct", "IdentifierPath">>),
               FldDefault("arguments", <<"Option", "Vec", "Enum", "Expression">>),
               Fld("src", <<"SourceLocation">>) >>
      [] n = "InlineAssembly" ->  \* ast.rs 961-971
            << Fld("id", <<"i64">>),
               Fld("operations", <<"Option", "Value">>),
               Fld("externalReferences", <<"Option", "Vec", "Struct", "ExternalReference">>),
               Fld("src", <<"SourceLocation">>),
               Fld("documentation", <<"Option", "Documentation">>),
               FldDefault("flags", <<"Vec", "String">>) >>
      [] n = "OverrideSpecifier" ->  \* ast.rs 974-980
            << Fld("id", <<"i64">>),
               FldDefault("overrides", <<"Vec", "Struct", "IdentifierPath">>),
               Fld("src", <<"SourceLocation">>) >>
      [] n = "ParameterList" ->  \* ast.rs 983-990
            << Fld("id", <<"i64">>),
               Fld("parameters", <<"Vec", "Struct", "VariableDeclaration">>),
               Fld("src", <<"SourceLocation">>),
               FldDefault("nodes", <<"Vec", "Enum", "ParameterListNode">>) >>
      [] n = "RevertStatement" ->  \* ast.rs 993-999
            << Fld("id", <<"i64">>),
               Fld("errorCall", <<"Struct", "FunctionCall">>),
               Fld("src", <<"SourceLocation">>) >>
      [] n = "UserDefinedTypeName" ->  \* ast.rs 1002-1011
            << Fld("id", <<"i64">>),
               Fld("pathNode", <<"Option", "Struct", "IdentifierPath">>),
               Fld("referenced_declaration", <<"Option", "i64">>),
               Fld("src", <<"SourceLocation">>),
               Fld("typeDescriptions", <<"Struct", "TypeDescriptions">>) >>
      [] n = "UsingForDirective" ->  \* ast.rs 1014-1027
            << Fld("id", <<"i64">>),
               Fld("libraryName", <<"Option", "Struct", "IdentifierPath">>),
               Fld("typeName", <<"Option", "Struct", "UserDefinedTypeName">>),
               Fld("operations", <<"Option", "Vec", "String">>),
               Fld("src", <<"SourceLocation">>),
               Fld("global", <<"Option", "bool">>),
               FldDefault("nodes", <<"Vec", "Enum", "UsingForDirectiveNode">>),
               Fld("scope", <<"Option", "i64">>) >>
      [] n = "Break" ->  \* ast.rs 1030-1034
            << Fld("id", <<"i64">>),
               Fld("src", <<"SourceLocation">>) >>
      [] n = "Continue" ->  \* ast.rs 1037-1041
            << Fld("id", <<"i64">>),
               Fld("src", <<"SourceLocation">>) >>
      [] n = "ElementaryTypeName" ->  \* ast.rs 1044-1053
            << Fld("id", <<"i64">>),
               Fld("name", <<"ElementaryType">>),
               Fld("src", <<"SourceLocation">>),
               Fld("stateMutability", <<"Option", "String">>),
               Fld("typeDescriptions", <<"Struct", "TypeDescriptions">>) >>
      [] n = "EnumValue" ->  \* ast.rs 1056-1063
            << Fld("id", <<"i64">>),
               Fld("name", <<"String">>),
               Fld("nameLocation", <<"String">>),
               Fld("src", <<"SourceLocation">>) >>
      [] n = "Identifier" ->  \* ast.rs 1066-1080
            << Fld("id", <<"i64">>),
               Fld("name", <<"String">>),
               FldDefault("overloadedDeclarations", <<"Vec", "i64">>),
               Fld("referencedDeclaration", <<"Option", "i64">>),
               Fld("src", <<"SourceLocation">>),
               Fld("typeDescriptions", <<"Struct", "TypeDescriptions">>),
               Fld("argumentTypes", <<"Option", "Vec", "Struct", "TypeDescriptions">>) >>
      [] n = "IdentifierPath" ->  \* ast.rs 1083-1092
            << Fld("id", <<"i64">>),
               Fld("name", <<"String">>),
               Fld("nameLocations", <<"Option", "Vec", "String">>),
               Fld("referencedDeclaration", <<"Option", "i64">>),
               Fld("src", <<"SourceLocation">>) >>
      [] n = "ImportDirective" ->  \* ast.rs 1095-1114
            << Fld("id", <<"i64">>),
               Fld("absolutePath", <<"String">>),
               Fld("file", <<"String">>),
               Fld("unitAlias", <<"Option", "String">>),
               FldDefault("symbolAliases", <<"Vec", "Struct", "SymbolAlias">>),
               Fld("scope", <<"Option", "i64">>),
               Fld("sourceUnit", <<"Option", "i64">>),
               Fld("src", <<"SourceLocation">>),
               Fld("nameLocation", <<"Option", "String">>),
               FldDefault("nodes", <<"Vec", "Enum", "ImportDirectiveNode">>) >>
      [] n = "Literal" ->  \* ast.rs 1117-1138
            << Fld("id", <<"i64">>),
               Fld("kind", <<"Unit", "LiteralKind">>),
               Fld("value", <<"String">>),
               Fld("hexValue", <<"Option", "String">>),
               Fld("subdenomination", <<"Option", "String">>),
               Fld("src", <<"SourceLocation">>),
               Fld("typeDescriptions", <<"Struct", "TypeDescriptions">>),
               Fld("isConstant", <<"bool">>),
               Fld("isLValue", <<"bool">>),
               Fld("isPure", <<"bool">>),
               Fld("lValueRequested", <<"bool">>),
               Fld("formattedValue", <<"Option", "String">>) >>
      [] n = "PlaceholderStatement" ->  \* ast.rs 1141-1145
            << Fld("id", <<"i64">>),
               Fld("src", <<"SourceLocation">>) >>
      [] n = "PragmaDirective" ->  \* ast.rs 1148-1155
            << Fld("id", <<"i64">>),
               Fld("literals", <<"Vec", "String">>),
               Fld("src", <<"SourceLocation">>),
               FldDefault("nodes", <<"Vec", "Enum", "PragmaDirectiveNode">>) >>
      [] n = "StructuredDocumentation" ->  \* ast.rs 1158-1174
            << Fld("id", <<"i64">>),
               Fld("text", <<"String">>),
               Fld("src", <<"SourceLocation">>),
               Fld("url", <<"Option", "String">>),
               Fld("author", <<"Option", "String">>),
               Fld("title", <<"Option", "String">>),
               Fld("notice", <<"Option", "String">>),
               Fld("dev", <<"Option", "String">>),
               FldDefault("params", <<"Vec", "Struct", "StructuredDocumentationParameter">>),
               FldDefault("returns", <<"Vec", "Struct", "StructuredDocumentationReturn">>),
               FldDefault("custom", <<"Vec", "Struct", "StructuredDocumentationCustom">>) >>
      [] n = "FunctionCallOptions" ->  \* ast.rs 1177-1189
            << Fld("id", <<"i64">>),
               Fld("expression", <<"Enum", "Expression">>),
               Fld("names", <<"Vec", "String">>),
               Fld("options", <<"Vec", "Enum", "Expression">>),
               Fld("src", <<"SourceLocation">>),
               Fld("typeDescriptions", <<"Struct", "TypeDescriptions">>),
               FldDefault("nameLocations", <<"Option", "Vec", "String">>) >>
      [] n = "ExternalReference" ->  \* ast.rs 1195-1205
            << Fld("declaration", <<"i64">>),
               Fld("isOffset", <<"bool">>),
               Fld("isSlot", <<"bool">>),
               Fld("src", <<"SourceLocation">>),
               Fld("valueSize", <<"i64">>) >>
      [] n = "SymbolAlias" ->  \* ast.rs 1208-1214
            << Fld("foreign", <<"Struct", "Identifier">>),
               Fld("local", <<"Option", "String">>),
               Fld("nameLocation", <<"String">>) >>
      [] n = "StructuredDocumentationParameter" ->  \* ast.rs 1217-1221
            << Fld("name", <<"String">>),
               Fld("description", <<"String">>) >>
      [] n = "StructuredDocumentationReturn" ->  \* ast.rs 1224-1228
            << Fld("name", <<"Option", "String">>),
               Fld("description", <<"String">>) >>
      [] n = "StructuredDocumentationCustom" ->  \* ast.rs 1231-1235
            << Fld("tag", <<"String">>),
               Fld("content", <<"String">>) >>
      [] n = "DoWhileStatement" ->  \* ast.rs 1307-1313
            << Fld("id", <<"i64">>),
               Fld("condition", <<"Enum", "Expression">>),
               Fld("body", <<"Enum", "Statement">>),
               Fld("src", <<"SourceLocation">>) >>
      [] n = "common_TypeDescriptions" ->  \* ast/common.rs 13-22
            << FldSkip("typeIdentifier", <<"Option", "String">>),
               FldSkip("typeString", <<"Option", "String">>) >>
      [] n = "types_ElementaryTypeName" ->  \* ast/types.rs 76-98
            << Fld("id", <<"i64">>),
               Fld("name", <<"types_ElementaryType">>),
               Fld("nodeType", <<"String">>),
               Fld("src", <<"common_SourceLocation">>),
               FldSkip("stateMutability", <<"Option", "String">>),
               Fld("typeDescriptions", <<"Struct", "common_TypeDescriptions">>) >>
      [] n = "identifier_Identifier" ->  \* ast/identifier.rs 44-70
            << Fld("id", <<"i64">>),
               Fld("name", <<"String">>),
               Fld("nodeType", <<"String">>),
               Fld("overloadedDeclarations", <<"Vec", "i64">>),
               Fld("referencedDeclaration", <<"i64">>),
               Fld("src", <<"common_SourceLocation">>),
               Fld("typeDescriptions", <<"Struct", "common_TypeDescriptions">>) >>
      [] n \in AbiStructs -> AbiFields(n)

NoVariants == [tag \in {} |-> ""]

(* The variants of each enum tagged by "nodeType": the tag value and the   *)
(* struct the variant holds.  An enum without variants has no entries.     *)
EnumVariants(n) ==
    CASE n = "SourceUnitNode" ->  \* ast.rs 147-161
            [ContractDefinition |-> "ContractDefinition",
             EnumDefinition |-> "EnumDefinition",
             ErrorDefinition |-> "ErrorDefinition",
             EventDefinition |-> "EventDefinition",
             FunctionDefinition |-> "FunctionDefinition",
             ImportDirective |-> "ImportDirective",
             PragmaDirective |-> "PragmaDirective",
             StructDefinition |-> "StructDefinition",
             UserDefinedValueTypeDefinition |-> "UserDefinedValueTypeDefinition",
             UsingForDirective |-> "UsingForDirective",
             VariableDeclaration |-> "VariableDeclaration"]
      [] n = "ParameterListNode" ->  \* ast.rs 163-165
            NoVariants
      [] n = "BlockNode" ->  \* ast.rs 167-169
            NoVariants
      [] n = "UncheckedBlockNode" ->  \* ast.rs 171-173
            NoVariants
      [] n = "UsingForDirectiveNode" ->  \* ast.rs 175-177
            NoVariants
      [] n = "ImportDirectiveNode" ->  \* ast.rs 179-181
            NoVariants
      [] n = "PragmaDirectiveNode" ->  \* ast.rs 183-185
            NoVariants
      [] n = "UserDefinedValueTypeDefinitionNode" ->  \* ast.rs 187-189
            NoVariants
      [] n = "ModifierDefinitionNode" ->  \* ast.rs 191-193
            NoVariants
      [] n = "EnumDefinitionNode" ->  \* ast.rs 195-197
            NoVariants
      [] n = "ErrorDefinitionNode" ->  \* ast.rs 199-201
            NoVariants
      [] n = "EventDefinitionNode" ->  \* ast.rs 203-205
            NoVariants
      [] n = "StructDefinitionNode" ->  \* ast.rs 207-209
            NoVariants
      [] n = "VariableDeclarationNode" ->  \* ast.rs 211-213
            NoVariants
      [] n = "ContractDefinitionNode" ->  \* ast.rs 353-364
            [EnumDefinition |-> "EnumDefinition",
             ErrorDefinition |-> "ErrorDefinition",
             EventDefinition |-> "EventDefinition",
             FunctionDefinition |-> "FunctionDefinition",
             ModifierDefinition |-> "ModifierDefinition",
             StructDefinition |-> "StructDefinition",
             UsingForDirective |-> "UsingForDirective",
             VariableDeclaration |-> "VariableDeclaration"]
      [] n = "Expression" ->  \* ast.rs 1242-1259
            [Assignment |-> "Assignment",
             BinaryOperation |-> "BinaryOperation",
             Conditional |-> "Conditional",
             ElementaryTypeNameExpression |-> "ElementaryTypeNameExpression",
             FunctionCall |-> "FunctionCall",
             Identifier |-> "Identifier",
             IndexAccess |-> "IndexAccess",
             Literal |-> "Literal",
             MemberAccess |-> "MemberAccess",
             NewExpression |-> "NewExpression",
             TupleExpression |-> "TupleExpression",
             UnaryOperation |-> "UnaryOperation",
             VariableDeclarationStatement |-> "VariableDeclarationStatement",
             ExpressionStatement |-> "ExpressionStatement"]
      [] n = "Statement" ->  \* ast.rs 1262-1281
            [Block |-> "Block",
             Break |-> "Break",
             Continue |-> "Continue",
             DoWhileStatement |-> "DoWhileStatement",
             EmitStatement |-> "EmitStatement",
             ExpressionStatement |-> "ExpressionStatement",
             ForStatement |-> "ForStatement",
             IfStatement |-> "IfStatement",
             InlineAssembly |-> "InlineAssembly",
             PlaceholderStatement |-> "PlaceholderStatement",
             Return |-> "Return",
             RevertStatement |-> "RevertStatement",
             TryStatement |-> "TryStatement",
             UncheckedBlock |-> "UncheckedBlock",
             VariableDeclarationStatement |-> "VariableDeclarationStatement",
             WhileStatement |-> "WhileStatement"]
      [] n = "TypeName" ->  \* ast.rs 1284-1292
            [ArrayTypeName |-> "ArrayTypeName",
             ElementaryTypeName |-> "ElementaryTypeName",
             FunctionTypeName |-> "FunctionTypeName",
             Mapping |-> "Mapping",
             UserDefinedTypeName |-> "UserDefinedTypeName"]
      [] n = "FunctionCallExpression" ->  \* ast.rs 1295-1304
            [ElementaryTypeNameExpression |-> "ElementaryTypeNameExpression",
             FunctionCall |-> "FunctionCall",
             FunctionCallOptions |-> "FunctionCallOptions",
             Identifier |-> "Identifier",
             MemberAccess |-> "MemberAccess",
             NewExpression |-> "NewExpression"]

\* Variant: "Identifier" is tried as an IdentifierPath.
TryParseTable_misrouted ==
    [Identifier |-> "IdentifierPath", Literal |-> "Literal"]

(* try_parse_node: the record type tried for a nodeType value; any other  *)
(* value is not tried.                                                    *)
TryParseTable ==
    [Literal |-> "Literal",
     Identifier |-> "Identifier",
     BinaryOperation |-> "BinaryOperation",
     UnaryOperation |-> "UnaryOperation",
     MemberAccess |-> "MemberAccess",
     IndexAccess |-> "IndexAccess",
     FunctionCall |-> "FunctionCall",
     Assignment |-> "Assignment",
     Conditional |-> "Conditional",
     TupleExpression |-> "TupleExpression",
     VariableDeclaration |-> "VariableDeclaration",
     Block |-> "Block",
     IfStatement |-> "IfStatement",
     ForStatement |-> "ForStatement",
     WhileStatement |-> "WhileStatement",
     Return |-> "Return",
     Break |-> "Break",
     Continue |-> "Continue",
     VariableDeclarationStatement |-> "VariableDeclarationStatement",
     EmitStatement |-> "EmitStatement",
     RevertStatement |-> "RevertStatement",
     TryStatement |-> "TryStatement",
     UncheckedBlock |-> "UncheckedBlock",
     InlineAssembly |-> "InlineAssembly",
     PlaceholderStatement |-> "PlaceholderStatement",
     NewExpression |-> "NewExpression",
     ElementaryTypeNameExpression |-> "ElementaryTypeNameExpression",
     ExpressionStatement |-> "ExpressionStatement",
     ContractDefinition |-> "ContractDefinition",
     StructDefinition |-> "StructDefinition",
     EnumDefinition |-> "EnumDefinition",
     ErrorDefinition |-> "ErrorDefinition",
     EventDefinition |-> "EventDefinition",
     FunctionDefinition |-> "FunctionDefinition",
     ModifierDefinition |-> "ModifierDefinition",
     UserDefinedValueTypeDefinition |-> "UserDefinedValueTypeDefinition",
     ImportDirective |-> "ImportDirective",
     PragmaDirective |-> "PragmaDirective",
     UsingForDirective |-> "UsingForDirective",
     DoWhileStatement |-> "DoWhileStatement",
     SourceUnit |-> "SourceUnit"]

(* The JSON spelling of each variant of the unit-only enums.              *)
UnitNames(n) ==
    CASE n = "ContractKind" ->  \* ast.rs 35-41
            [Contract |-> "contract",
             Interface |-> "interface",
             Library |-> "library"]
      [] n = "FunctionKind" ->  \* ast.rs 43-52
            [Constructor |-> "constructor",
             Function |-> "function",
             Receive |-> "receive",
             Fallback |-> "fallback",
             FreeFunction |-> "freeFunction"]
      [] n = "Visibility" ->  \* ast.rs 54-61
            [External |-> "external",
             Public |-> "public",
             Internal |-> "internal",
             Private |-> "private"]
      [] n = "StateMutability" ->  \* ast.rs 63-70
            [Pure |-> "pure",
             View |-> "view",
             Nonpayable |-> "nonpayable",
             Payable |-> "payable"]
      [] n = "StorageLocation" ->  \* ast.rs 72-79
            [Default |-> "default",
             Memory |-> "memory",
             Storage |-> "storage",
             Calldata |-> "calldata"]
      [] n = "Mutability" ->  \* ast.rs 81-87
            [Mutable |-> "mutable",
             Immutable |-> "immutable",
             Constant |-> "constant"]
      [] n = "LiteralKind" ->  \* ast.rs 89-97
            [Bool |-> "bool",
             Number |-> "number",
             String |-> "string",
             HexString |-> "hexString",
             UnicodeString |-> "unicodeString"]
      [] n = "ModifierInvocationKind" ->  \* ast.rs 766-772
            [Modifier |-> "modifier",
             BaseConstructorSpecifier |-> "baseConstructorSpecifier",
             ModifierInvocation |-> "modifierInvocation"]
      [] n = "abi_StateMutability" ->  \* abi.rs 204-218
            [Pure |-> "pure",
             View |-> "view",
             Nonpayable |-> "nonpayable",
             Payable |-> "payable"]

----------------------------------------------------------------------------
(* Deserialize: what the derived and hand-written impls do on a JSON value *)

\* Variant: every integer but 0 reads as true.
deserialize_bool_or_int_nonzero(j) ==
    CASE j.t = "bool" -> Ok(VBool(j.b))
      [] j.t = "num" -> Ok(VBool(j.n # 0))
      [] OTHER -> Fail("invalid type", <<"a boolean or an integer (0 or 1)">>)

deserialize_bool_or_int(j) ==
    CASE j.t = "bool" -> Ok(VBool(j.b))
      [] j.t = "num" ->
            IF j.n = 0 THEN Ok(VBool(FALSE))
            ELSE IF j.n = 1 THEN Ok(VBool(TRUE))
            ELSE Fail("invalid integer value for boolean", <<"expected 0 or 1">>)
      [] OTHER -> Fail("invalid type", <<"a boolean or an integer (0 or 1)">>)

RECURSIVE Decode(_, _)

\* Variant: the elements come out last to first.
DecodeVec_reversed(ety, a) ==
    LET rs == <<>> \o [i \in 1..Len(a) |-> Decode(ety, a[i])]
        bad == {i \in 1..Len(a) : ~rs[i].ok}
    IN  IF bad = {} THEN Ok(VVec([i \in 1..Len(a) |-> rs[Len(a) + 1 - i].v]))
        ELSE LET i == CHOOSE b \in bad : \A c \in bad : b <= c
             IN  At(Idx(i - 1), rs[i])

\* Variant: an element that fails is left out of the sequence.
DecodeVec_skip_failed(ety, a) ==
    LET rs == <<>> \o [i \in 1..Len(a) |-> Decode(ety, a[i])]
        good == SelectSeq(rs, LAMBDA r : r.ok)
    IN  Ok(VVec([i \in 1..Len(good) |-> good[i].v]))

(* Vec<T>: the elements in order, the first failure wins.                  *)
DecodeVec(ety, a) ==
    LET rs == <<>> \o [i \in 1..Len(a) |-> Decode(ety, a[i])]
        bad == {i \in 1..Len(a) : ~rs[i].ok}
    IN  IF bad = {} THEN Ok(VVec([i \in 1..Len(a) |-> rs[i].v]))
        ELSE LET i == CHOOSE b \in bad : \A c \in bad : b <= c
             IN  At(Idx(i - 1), rs[i])

(* HashMap<String, T>: the members in order, the first failure wins; of    *)
(* members with one key the last stays.                                    *)
DecodeMap(ety, ms) ==
    LET n == Len(ms)
        rs == <<>> \o [i \in 1..n |-> Decode(ety, ms[i].v)]
        bad == {i \in 1..n : ~rs[i].ok}
        last == {i \in 1..n : \A q \in (i + 1)..n : ms[q].k # ms[i].k}
        entries == [i \in 1..n |-> Member(ms[i].k, rs[i].v)]
        kept(i) == Cardinality({q \in last : q <= i})
    IN  IF bad = {}
        THEN Ok(VMap([p \in 1..Cardinality(last) |->
                         entries[CHOOSE i \in last : kept(i) = p]]))
        ELSE LET i == CHOOSE b \in bad : \A c \in bad : b <= c
             IN  At(Key(ms[i].k), rs[i])

\* Variant: a field without a member takes a default, required or not.
DecodeMembers_missing_defaulted(name, fs, ms) ==
    LET n == Len(ms)
        fieldOf == <<>> \o [p \in 1..n |->
                       {i \in 1..Len(fs) :
                           \/ fs[i].key = ms[p].k
                           \/ fs[i].alias # "" /\ fs[i].alias = ms[p].k}]
        dup == {p \in 1..n : /\ fieldOf[p] # {}
                             /\ \E q \in 1..(p - 1) : fieldOf[q] = fieldOf[p]}
        rs == <<>> \o [p \in 1..n |->
                  IF fieldOf[p] = {} \/ p \in dup THEN Ok(None)
                  ELSE Decode(fs[CHOOSE i \in fieldOf[p] : TRUE].ty, ms[p].v)]
        bad == dup \cup {p \in 1..n : ~rs[p].ok}
        present == UNION {fieldOf[p] : p \in 1..n}
        missing == {}
        absent(i) == IF Head(fs[i].ty) = "Option" THEN None
                     ELSE IF Head(fs[i].ty) = "Map" THEN VMap(<<>>)
                     ELSE VVec(<<>>)
        value(i) == IF i \in present
                    THEN rs[CHOOSE p \in 1..n : fieldOf[p] = {i}].v
                    ELSE absent(i)
    IN  IF bad # {}
        THEN LET p == CHOOSE b \in bad : \A c \in bad : b <= c
                 i == CHOOSE x \in fieldOf[p] : TRUE
             IN  IF p \in dup THEN Fail("duplicate field", <<fs[i].key>>)
                 ELSE At(Key(ms[p].k), rs[p])
        ELSE IF missing # {}
        THEN LET i == CHOOSE b \in missing : \A c \in missing : b <= c
             IN  Fail("missing field", <<fs[i].key>>)
        ELSE Ok(VStruct(name, [i \in 1..Len(fs) |->
                                  Member(fs[i].key, value(i))]))

(* A derived struct read from a map: members are visited in order; an      *)
(* unknown key is ignored, a second member of one field is "duplicate      *)
(* field", a member's own failure is returned at once; after the last      *)
(* member an absent field takes its default, None for an Option, or is     *)
(* "missing field".                                                        *)
DecodeMembers(name, fs, ms) ==
    LET n == Len(ms)
        fieldOf == <<>> \o [p \in 1..n |->
                       {i \in 1..Len(fs) :
                           \/ fs[i].key = ms[p].k
                           \/ fs[i].alias # "" /\ fs[i].alias = ms[p].k}]
        dup == {p \in 1..n : /\ fieldOf[p] # {}
                             /\ \E q \in 1..(p - 1) : fieldOf[q] = fieldOf[p]}
        rs == <<>> \o [p \in 1..n |->
                  IF fieldOf[p] = {} \/ p \in dup THEN Ok(None)
                  ELSE Decode(fs[CHOOSE i \in fieldOf[p] : TRUE].ty, ms[p].v)]
        bad == dup \cup {p \in 1..n : ~rs[p].ok}
        present == UNION {fieldOf[p] : p \in 1..n}
        missing == {i \in 1..Len(fs) :
                       /\ i \notin present
                       /\ ~fs[i].dflt
                       /\ Head(fs[i].ty) # "Option"}
        absent(i) == IF Head(fs[i].ty) = "Option" THEN None
                     ELSE IF Head(fs[i].ty) = "Map" THEN VMap(<<>>)
                     ELSE VVec(<<>>)
        value(i) == IF i \in present
                    THEN rs[CHOOSE p \in 1..n : fieldOf[p] = {i}].v
                    ELSE absent(i)
    IN  IF bad # {}
        THEN LET p == CHOOSE b \in bad : \A c \in bad : b <= c
                 i == CHOOSE x \in fieldOf[p] : TRUE
             IN  IF p \in dup THEN Fail("duplicate field", <<fs[i].key>>)
                 ELSE At(Key(ms[p].k), rs[p])
        ELSE IF missing # {}
        THEN LET i == CHOOSE b \in missing : \A c \in missing : b <= c
             IN  Fail("missing field", <<fs[i].key>>)
        ELSE Ok(VStruct(name, [i \in 1..Len(fs) |->
                                  Member(fs[i].key, value(i))]))

(* A derived struct read from a sequence: the elements are the fields in   *)
(* declaration order; a field the sequence is too short for takes its      *)
(* default or is "invalid length"; elements past the last field are an     *)
(* error.                                                                  *)
DecodeSeq(name, fs, xs) ==
    LET n == Len(fs)
        m == Len(xs)
        read == IF m < n THEN m ELSE n
        rs == <<>> \o [i \in 1..read |-> Decode(fs[i].ty, xs[i])]
        bad == {i \in 1..read : ~rs[i].ok}
                  \cup {i \in (m + 1)..n : ~fs[i].dflt}
        absent(i) == IF Head(fs[i].ty) = "Option" THEN None
                     ELSE IF Head(fs[i].ty) = "Map" THEN VMap(<<>>)
                     ELSE VVec(<<>>)
    IN  IF bad # {}
        THEN LET i == CHOOSE b \in bad : \A c \in bad : b <= c
             IN  IF i <= m THEN At(Idx(i - 1), rs[i])
                 ELSE Fail("invalid length", <<"struct", name>>)
        ELSE IF m > n THEN Fail("trailing elements", <<"struct", name>>)
        ELSE Ok(VStruct(name, [i \in 1..n |->
                                  Member(fs[i].key,
                                         IF i <= m THEN rs[i].v ELSE absent(i))]))

\* Variant: a FunctionDefinition that is internal or private and carries a
\* functionSelector is refused.
DecodeStruct_selector_checked(name, j) ==
    IF j.t \notin {"obj", "arr"} THEN Fail("invalid type", <<"struct", name>>)
    ELSE IF /\ name = "FunctionDefinition"
            /\ \E p \in DOMAIN j.items : j.items[p].k = "functionSelector"
            /\ \E p \in DOMAIN j.items :
                   /\ j.items[p].k = "visibility"
                   /\ j.items[p].v \in {JStr(<<"internal">>), JStr(<<"private">>)}
    THEN Fail("invalid value", <<"functionSelector">>)
    ELSE IF j.t = "arr" THEN DecodeSeq(name, StructFields(name), Children(j))
    ELSE DecodeMembers(name, StructFields(name), j.items)

DecodeStruct(name, j) ==
    IF j.t = "arr" THEN DecodeSeq(name, StructFields(name), Children(j))
    ELSE IF j.t # "obj" THEN Fail("invalid type", <<"struct", name>>)
    ELSE DecodeMembers(name, StructFields(name), j.items)

(* de::Error::unknown_variant: the message quotes the value and lists the  *)
(* variants of the enum that was expected.                                 *)
UnknownVariant(value, name) ==
    Fail("unknown variant", value \o <<"expected one of", name>>)

\* Variant: a tag outside the table is reported as a missing tag.
DecodeEnum_unknown_as_missing(name, j) ==
    IF j.t # "obj" THEN Fail("invalid type", <<"enum", name>>)
    ELSE LET ms == j.items
             tags == {p \in 1..Len(ms) : ms[p].k = TagKey}
             first == CHOOSE p \in tags : \A q \in tags : p <= q
             tag == ms[first].v
             rest == SelectSeq(ms, LAMBDA m : m.k # TagKey)
         IN  IF tags = {} THEN Fail("missing field", <<TagKey>>)
             ELSE IF Cardinality(tags) > 1
             THEN Fail("duplicate field", <<TagKey>>)
             ELSE IF tag.t # "str" THEN Fail("invalid type", <<"variant">>)
             ELSE IF Len(tag.s) # 1 \/ tag.s[1] \notin DOMAIN EnumVariants(name)
             THEN Fail("missing field", <<TagKey>>)
             ELSE DecodeMembers(tag.s[1],
                                StructFields(EnumVariants(name)[tag.s[1]]),
                                rest)

(* #[serde(tag = "nodeType")]: the tag member picks the variant, the other *)
(* members are then read as the variant's struct.                          *)
DecodeEnum(name, j) ==
    IF j.t # "obj" THEN Fail("invalid type", <<"enum", name>>)
    ELSE LET ms == j.items
             tags == {p \in 1..Len(ms) : ms[p].k = TagKey}
             first == CHOOSE p \in tags : \A q \in tags : p <= q
             tag == ms[first].v
             rest == SelectSeq(ms, LAMBDA m : m.k # TagKey)
         IN  IF tags = {} THEN Fail("missing field", <<TagKey>>)
             ELSE IF Cardinality(tags) > 1
             THEN Fail("duplicate field", <<TagKey>>)
             ELSE IF tag.t # "str" THEN Fail("invalid type", <<"variant">>)
             ELSE IF Len(tag.s) # 1 \/ tag.s[1] \notin DOMAIN EnumVariants(name)
             THEN UnknownVariant(tag.s, name)
             ELSE DecodeMembers(tag.s[1],
                                StructFields(EnumVariants(name)[tag.s[1]]),
                                rest)

\* Variant: an item whose type is not one of the six is skipped over as an
\* empty fallback.
DecodeAbiItem_unknown_accepted(j) ==
    LET known == {p \in DOMAIN j.items :
                     /\ j.items[p].k = AbiTagKey
                     /\ j.items[p].v.t = "str" /\ Len(j.items[p].v.s) = 1
                     /\ j.items[p].v.s[1] \in DOMAIN AbiItemVariants}
    IN  IF j.t # "obj" THEN Fail("invalid type", <<"enum", "AbiItem">>)
        ELSE IF known = {} THEN Ok(VStruct("abi_Fallback", <<>>))
        ELSE LET tag == j.items[CHOOSE p \in known : TRUE].v.s[1]
             IN  DecodeMembers(AbiItemVariants[tag],
                               StructFields(AbiItemVariants[tag]),
                               SelectSeq(j.items, LAMBDA m : m.k # AbiTagKey))

(* #[serde(tag = "type")] AbiItem: the members are read in order, the      *)
(* "type" member as the variant name at once (a second one is "duplicate   *)
(* field"), the others kept; without a "type" member the item is "missing  *)
(* field"; the kept members are then read as the record of the variant. An *)
(* item written as an array has the variant name as its first element and  *)
(* the fields of the record after it.                                      *)
DecodeAbiItem(j) ==
    LET ms == j.items
        tags == {p \in DOMAIN ms : j.t = "arr" \/ ms[p].k = AbiTagKey}
        first == CHOOSE p \in tags : \A q \in tags : p <= q
        tag == ms[first].v
        record == AbiItemVariants[tag.s[1]]
    IN  IF j.t \notin {"obj", "arr"}
        THEN Fail("invalid type", <<"enum", "AbiItem">>)
        ELSE IF tags = {} THEN Fail("missing field", <<AbiTagKey>>)
        ELSE IF tag.t # "str" THEN Fail("invalid type", <<"variant">>)
        ELSE IF Len(tag.s) # 1 \/ tag.s[1] \notin DOMAIN AbiItemVariants
        THEN UnknownVariant(tag.s, "AbiItem")
        ELSE IF j.t = "arr"
        THEN DecodeSeq(record, StructFields(record), Tail(Children(j)))
        ELSE IF Cardinality(tags) > 1
        THEN Fail("duplicate field", <<AbiTagKey>>)
        ELSE DecodeMembers(record, StructFields(record),
                           SelectSeq(ms, LAMBDA m : m.k # AbiTagKey))

(* #[serde(rename_all = ...)] on a unit-only enum: the JSON spelling of    *)
(* one of its variants.                                                    *)
DecodeUnit(name, j) ==
    LET names == UnitNames(name)
        hit == {r \in DOMAIN names : j.s = <<names[r]>>}
    IN  IF j.t # "str" THEN Fail("invalid type", <<"unit", name>>)
        ELSE IF hit = {} THEN UnknownVariant(j.s, name)
        ELSE Ok(VUnit(name, CHOOSE r \in hit : TRUE))

\* Variant: only the structured record is accepted.
DecodeDocumentation_structured_only(j) ==
    LET r == DecodeStruct("StructuredDocumentation", j)
    IN  IF r.ok
        THEN Ok(Node("Documentation::Structured", FALSE, 0, <<>>,
                     <<Member("", r.v)>>))
        ELSE Fail("data did not match any variant of untagged enum",
                  <<"Documentation">>)

(* #[serde(untagged)] Documentation: String first, then the structured     *)
(* record.                                                                 *)
DecodeDocumentation(j) ==
    IF j.t = "str" THEN Ok(Node("Documentation::String", FALSE, 0, j.s, <<>>))
    ELSE LET r == DecodeStruct("StructuredDocumentation", j)
         IN  IF r.ok
             THEN Ok(Node("Documentation::Structured", FALSE, 0, <<>>,
                          <<Member("", r.v)>>))
             ELSE Fail("data did not match any variant of untagged enum",
                       <<"Documentation">>)

DecodeLocation(j, r) ==
    IF j.t # "str" THEN Fail("invalid type", <<"SourceLocation">>)
    ELSE IF r.ok THEN Ok(VLocation(r))
    ELSE Fail(r.kind, <<r.field, r.cause>>)

DecodeElementary(j, r) ==
    IF j.t # "str" THEN Fail("invalid type", <<"ElementaryType">>)
    ELSE IF r.ok THEN Ok(VElementary(r))
    ELSE Fail(r.err, <<r.cause>> \o r.got)

Decode(ty, j) ==
    LET h == Head(ty)
    IN  CASE h = "i64" ->
                IF j.t = "num" THEN Ok(VInt(j.n))
                ELSE Fail("invalid type", <<"i64">>)
          [] h = "bool" ->
                IF j.t = "bool" THEN Ok(VBool(j.b))
                ELSE Fail("invalid type", <<"bool">>)
          [] h = "String" ->
                IF j.t = "str" THEN Ok(VString(j.s))
                ELSE Fail("invalid type", <<"String">>)
          [] h = "Value" -> Ok(VValue(j))
          [] h = "BoolOrInt" -> deserialize_bool_or_int(j)
          [] h = "SourceLocation" ->
                DecodeLocation(j, ast_SourceLocation_deserialize(j.s))
          [] h = "common_SourceLocation" ->
                DecodeLocation(j, SourceLocation_deserialize(j.s))
          [] h = "ElementaryType" ->
                DecodeElementary(j, ast_ElementaryType_deserialize(j.s))
          [] h = "types_ElementaryType" ->
                DecodeElementary(j, ElementaryType_deserialize(j.s))
          [] h = "Option" ->
                IF j.t = "null" THEN Ok(None)
                ELSE LET r == Decode(Tail(ty), j)
                     IN  IF r.ok THEN Ok(Some(r.v)) ELSE r
          [] h = "Vec" ->
                IF j.t = "arr" THEN DecodeVec(Tail(ty), Children(j))
                ELSE Fail("invalid type", <<"Vec">>)
          [] h = "Map" ->
                IF j.t = "obj" THEN DecodeMap(Tail(ty), j.items)
                ELSE Fail("invalid type", <<"Map">>)
          [] h = "Struct" -> DecodeStruct(ty[2], j)
          [] h = "Enum" -> DecodeEnum(ty[2], j)
          [] h = "Unit" -> DecodeUnit(ty[2], j)
          [] h = "Documentation" -> DecodeDocumentation(j)
          [] h = "AbiItem" -> DecodeAbiItem(j)

----------------------------------------------------------------------------
(* Serialize: the JSON value the derived and hand-written impls emit       *)

RECURSIVE Encode(_, _)

(* A derived struct: its fields in declaration order, a                    *)
(* skip_serializing_if field left out when it is None.                     *)
RECURSIVE EncodeFields(_, _, _)
EncodeFields(fs, v, i) ==
    IF i > Len(fs) THEN <<>>
    ELSE IF fs[i].skip /\ v.items[i].v = None
    THEN EncodeFields(fs, v, i + 1)
    ELSE <<Member(fs[i].key, Encode(fs[i].ty, v.items[i].v))>>
            \o EncodeFields(fs, v, i + 1)

EncodeStruct(name, v) == JObj(EncodeFields(StructFields(name), v, 1))

\* Variant: the tag member is not written.
EncodeEnum_untagged(name, v) ==
    JObj(EncodeFields(StructFields(EnumVariants(name)[v.t]), v, 1))

(* A tagged enum: the tag member first, then the variant's fields.         *)
EncodeEnum(name, v) ==
    JObj(<<Member(TagKey, JStr(<<v.t>>))>>
            \o EncodeFields(StructFields(EnumVariants(name)[v.t]), v, 1))

Encode(ty, v) ==
    LET h == Head(ty)
    IN  CASE h = "i64" -> JNum(v.n)
          [] h = "bool" -> JBool(v.b)
          [] h = "BoolOrInt" -> JBool(v.b)
          [] h = "String" -> JStr(v.s)
          [] h = "Value" -> v.items[1].v
          [] h = "SourceLocation" ->
                JStr(ast_SourceLocation_serialize(LocationOf(v)))
          [] h = "common_SourceLocation" ->
                JStr(SourceLocation_serialize(LocationOf(v)))
          [] h = "ElementaryType" ->
                JStr(ast_ElementaryType_serialize(ElementaryOf(v)))
          [] h = "types_ElementaryType" ->
                JStr(ElementaryType_serialize(ElementaryOf(v)))
          [] h = "Option" ->
                IF v = None THEN JNull ELSE Encode(Tail(ty), v.items[1].v)
          [] h = "Vec" ->
                JArr([i \in 1..Len(v.items) |->
                         Encode(Tail(ty), v.items[i].v)])
          [] h = "Map" ->
                JObj([i \in 1..Len(v.items) |->
                         Member(v.items[i].k, Encode(Tail(ty), v.items[i].v))])
          [] h = "Struct" -> EncodeStruct(ty[2], v)
          [] h = "Enum" -> EncodeEnum(ty[2], v)
          [] h = "Unit" -> JStr(<<UnitNames(ty[2])[v.s[1]]>>)
          [] h = "Documentation" ->
                IF v.t = "Documentation::String" THEN JStr(v.s)
                ELSE EncodeStruct("StructuredDocumentation", v.items[1].v)

----------------------------------------------------------------------------
(* Documents under test: every node kind, its members varied one at a      *)
(* time over sample values, placed where a SourceUnit can hold it.         *)

MaxRepeat == 2

Chars_638_8_101 == <<"6", "3", "8", ":", "8", ":", "1", "0", "1">>

LocSamples ==
    {JStr(Chars_638_8_101),
     JStr(<<"+", "1", ":", "0", "2", ":", "3">>),
     JStr(<<"1", ":", "2">>),
     JStr(<<"1", ":", "2", ":", "-", "1">>),
     JNum(1)}

ElemSamples ==
    {JStr(T_uint), JStr(T_uint \o <<"2", "5", "6">>), JStr(T_int \o <<"8">>),
     JStr(T_bytes \o <<"0">>), JStr(T_bytes \o <<"3", "2">>),
     JStr(T_address), JStr(T_uint \o <<"x">>),
     JStr(T_ufixed \o <<"1", "2", "8", "x", "1", "8">>)}

ValueSamples ==
    {JNull, JNum(7), JStr(<<"add">>), JArr(<<JBool(TRUE)>>),
     JObj(<<Member("b", JNum(2)), Member("a", JNull)>>)}

MapSamples ==
    {JObj(<<>>),
     JObj(<<Member("A", JArr(<<JNum(3)>>))>>),
     JObj(<<Member("B", JArr(<<>>)), Member("A", JArr(<<JNum(3), JNum(4)>>))>>),
     JObj(<<Member("A", JArr(<<JNum(3)>>)), Member("A", JArr(<<>>))>>),
     JObj(<<Member("A", JNum(3))>>)}

DefaultVariant(e) ==
    CASE e = "Expression" -> "Identifier"
      [] e = "FunctionCallExpression" -> "Identifier"
      [] e = "Statement" -> "Break"
      [] e = "TypeName" -> "ElementaryTypeName"

Tagged(name, ms) == <<Member(TagKey, JStr(<<name>>))>> \o ms

(* The compiler writes a "nodeType" member of the record's own name into   *)
(* every node, that is every record that carries id and src; a record      *)
(* without a field for it ignores the member. Plain lists the records that *)
(* are no nodes: those without id and src, and the two that declare a      *)
(* nodeType field of their own.                                            *)
Plain ==
    {"TypeDescriptions", "common_TypeDescriptions", "CommonType",
     "ExternalReference", "SymbolAlias", "StructuredDocumentationParameter",
     "StructuredDocumentationReturn", "StructuredDocumentationCustom",
     "types_ElementaryTypeName", "identifier_Identifier"}
    \cup AbiStructs

IsNode(name) == name \notin Plain

AsNode(name, ms) == IF IsNode(name) THEN Tagged(name, ms) ELSE ms

RECURSIVE Base(_)

RECURSIVE BaseMembers(_)
BaseMembers(fs) ==
    IF fs = <<>> THEN <<>>
    ELSE LET f == Head(fs)
         IN  IF f.dflt \/ Head(f.ty) = "Option" THEN BaseMembers(Tail(fs))
             ELSE <<Member(f.key, Base(f.ty))>> \o BaseMembers(Tail(fs))

Base(ty) ==
    LET h == Head(ty)
    IN  CASE h = "i64" -> JNum(1)
          [] h \in {"bool", "BoolOrInt"} -> JBool(FALSE)
          [] h = "String" -> JStr(<<"x">>)
          [] h = "Value" -> JNull
          [] h \in {"SourceLocation", "common_SourceLocation"} ->
                JStr(<<"0", ":", "0", ":", "0">>)
          [] h \in {"ElementaryType", "types_ElementaryType"} -> JStr(T_bool)
          [] h = "Option" -> JNull
          [] h = "Vec" -> JArr(<<>>)
          [] h = "Map" -> JObj(<<>>)
          [] h = "Struct" ->
                JObj(AsNode(ty[2], BaseMembers(StructFields(ty[2]))))
          [] h = "Enum" ->
                JObj(Tagged(DefaultVariant(ty[2]),
                            BaseMembers(StructFields(DefaultVariant(ty[2])))))
          [] h = "Unit" ->
                JStr(<<UnitNames(ty[2])[CHOOSE r \in DOMAIN UnitNames(ty[2]) :
                                           TRUE]>>)
          [] h = "Documentation" -> JStr(<<"x">>)

(* Put: the members with member k set to j (appended when absent).         *)
Put(ms, k, j) ==
    IF \E p \in 1..Len(ms) : ms[p].k = k
    THEN [p \in 1..Len(ms) |-> IF ms[p].k = k THEN Member(k, j) ELSE ms[p]]
    ELSE Append(ms, Member(k, j))

Drop(ms, k) == SelectSeq(ms, LAMBDA m : m.k # k)

RECURSIVE Samples(_)

(* Vary: the member lists of a struct with one member varied, renamed to   *)
(* its alias, repeated, removed, or with a member no field claims.         *)
Vary(name) ==
    LET fs == StructFields(name)
        base == BaseMembers(fs)
        I == 1..Len(fs)
    IN  {base}
        \cup UNION {{Put(base, fs[i].key, x) : x \in Samples(fs[i].ty)} :
                       i \in I}
        \cup {Append(Drop(base, fs[i].key), Member(fs[i].alias, JBool(TRUE))) :
                 i \in {x \in I : fs[x].alias # ""}}
        \cup {Append(base, Member(fs[i].alias, JBool(TRUE))) :
                 i \in {x \in I : fs[x].alias # ""}}
        \cup {Drop(base, fs[i].key) : i \in I}
        \cup {<<Member("extra", JNum(0))>> \o base}
        \cup {base \o <<base[1]>> : x \in {1} \cap DOMAIN base}

(* The two documentation objects: one with text and params only, one     *)
(* with the members the compiler writes and a params entry.                *)
TextAndParams ==
    JObj(<<Member("text", JStr(<<"x">>)), Member("params", JArr(<<>>))>>)

StructuredWithParams ==
    JObj(Put(Base(<<"Struct", "StructuredDocumentation">>).items, "params",
             JArr(<<Base(<<"Struct", "StructuredDocumentationParameter">>)>>)))

RECURSIVE Repeat(_, _)
Repeat(x, k) == IF k = 0 THEN <<>> ELSE <<x>> \o Repeat(x, k - 1)

(* Samples: values to put in a member of the type, right and wrong.        *)
Samples(ty) ==
    LET h == Head(ty)
    IN  CASE h = "i64" -> {JNum(0), JNum(-1), JNum(42), JStr(<<"1">>)}
          [] h = "bool" -> {JBool(TRUE), JBool(FALSE), JNum(1)}
          [] h = "BoolOrInt" ->
                {JBool(TRUE), JBool(FALSE), JNum(0), JNum(1), JNum(2), JNull,
                 JNum(-1), JStr(<<"1">>), JStr(<<"true">>)}
          [] h = "String" -> {JStr(<<"a", "b">>), JStr(<<>>), JNum(1)}
          [] h = "Value" -> ValueSamples
          [] h \in {"SourceLocation", "common_SourceLocation"} -> LocSamples
          [] h \in {"ElementaryType", "types_ElementaryType"} -> ElemSamples
          [] h = "Option" -> {JNull} \cup Samples(Tail(ty))
          [] h = "Vec" ->
                {JArr(<<>>), JNull}
                \cup {JArr(Repeat(x, k)) :
                         x \in Samples(Tail(ty)), k \in 1..MaxRepeat}
          [] h = "Map" -> MapSamples
          [] h = "Struct" -> {Base(ty)}
          [] h = "Enum" ->
                {JObj(Tagged("Unknown", <<>>)), JObj(<<>>),
                 JObj(<<Member("id", JNum(1))>>),
                 Base(<<"Struct", "SourceUnit">>)}
                \cup {JObj(Tagged(s, BaseMembers(
                                        StructFields(EnumVariants(ty[2])[s])))) :
                         s \in DOMAIN EnumVariants(ty[2])}
          [] h = "Unit" ->
                {JStr(<<UnitNames(ty[2])[r]>>) : r \in DOMAIN UnitNames(ty[2])}
                \cup {JStr(<<"other">>)}
          [] h = "Documentation" ->
                {JStr(<<"x">>), JNum(1), TextAndParams, StructuredWithParams}
                \cup Samples(<<"Struct", "StructuredDocumentation">>)

(* One place in a SourceUnit where a node of each kind can stand.          *)
HostOf(n) ==
    CASE n = "ContractDefinition" -> [struct |-> "SourceUnit", key |-> "nodes"]
      [] n = "EnumDefinition" -> [struct |-> "SourceUnit", key |-> "nodes"]
      [] n = "ErrorDefinition" -> [struct |-> "SourceUnit", key |-> "nodes"]
      [] n = "EventDefinition" -> [struct |-> "SourceUnit", key |-> "nodes"]
      [] n = "FunctionDefinition" -> [struct |-> "SourceUnit", key |-> "nodes"]
      [] n = "ImportDirective" -> [struct |-> "SourceUnit", key |-> "nodes"]
      [] n = "PragmaDirective" -> [struct |-> "SourceUnit", key |-> "nodes"]
      [] n = "StructDefinition" -> [struct |-> "SourceUnit", key |-> "nodes"]
      [] n = "UserDefinedValueTypeDefinition" -> [struct |-> "SourceUnit", key |-> "nodes"]
      [] n = "UsingForDirective" -> [struct |-> "SourceUnit", key |-> "nodes"]
      [] n = "VariableDeclaration" -> [struct |-> "SourceUnit", key |-> "nodes"]
      [] n = "ModifierDefinition" -> [struct |-> "ContractDefinition", key |-> "nodes"]
      [] n = "StructuredDocumentation" -> [struct |-> "ContractDefinition", key |-> "documentation"]
      [] n = "InheritanceSpecifier" -> [struct |-> "ContractDefinition", key |-> "baseContracts"]
      [] n = "EnumValue" -> [struct |-> "EnumDefinition", key |-> "members"]
      [] n = "ParameterList" -> [struct |-> "ErrorDefinition", key |-> "parameters"]
      [] n = "Block" -> [struct |-> "FunctionDefinition", key |-> "body"]
      [] n = "ModifierInvocation" -> [struct |-> "FunctionDefinition", key |-> "modifiers"]
      [] n = "OverrideSpecifier" -> [struct |-> "FunctionDefinition", key |-> "overrides"]
      [] n = "SymbolAlias" -> [struct |-> "ImportDirective", key |-> "symbolAliases"]
      [] n = "ArrayTypeName" -> [struct |-> "UserDefinedValueTypeDefinition", key |-> "underlyingType"]
      [] n = "ElementaryTypeName" -> [struct |-> "UserDefinedValueTypeDefinition", key |-> "underlyingType"]
      [] n = "FunctionTypeName" -> [struct |-> "UserDefinedValueTypeDefinition", key |-> "underlyingType"]
      [] n = "Mapping" -> [struct |-> "UserDefinedValueTypeDefinition", key |-> "underlyingType"]
      [] n = "UserDefinedTypeName" -> [struct |-> "UserDefinedValueTypeDefinition", key |-> "underlyingType"]
      [] n = "IdentifierPath" -> [struct |-> "UsingForDirective", key |-> "libraryName"]
      [] n = "Assignment" -> [struct |-> "VariableDeclaration", key |-> "value"]
      [] n = "BinaryOperation" -> [struct |-> "VariableDeclaration", key |-> "value"]
      [] n = "Conditional" -> [struct |-> "VariableDeclaration", key |-> "value"]
      [] n = "ElementaryTypeNameExpression" -> [struct |-> "VariableDeclaration", key |-> "value"]
      [] n = "FunctionCall" -> [struct |-> "VariableDeclaration", key |-> "value"]
      [] n = "Identifier" -> [struct |-> "VariableDeclaration", key |-> "value"]
      [] n = "IndexAccess" -> [struct |-> "VariableDeclaration", key |-> "value"]
      [] n = "Literal" -> [struct |-> "VariableDeclaration", key |-> "value"]
      [] n = "MemberAccess" -> [struct |-> "VariableDeclaration", key |-> "value"]
      [] n = "NewExpression" -> [struct |-> "VariableDeclaration", key |-> "value"]
      [] n = "TupleExpression" -> [struct |-> "VariableDeclaration", key |-> "value"]
      [] n = "UnaryOperation" -> [struct |-> "VariableDeclaration", key |-> "value"]
      [] n = "VariableDeclarationStatement" -> [struct |-> "VariableDeclaration", key |-> "value"]
      [] n = "ExpressionStatement" -> [struct |-> "VariableDeclaration", key |-> "value"]
      [] n = "TypeDescriptions" -> [struct |-> "VariableDeclaration", key |-> "typeDescriptions"]
      [] n = "StructuredDocumentationParameter" -> [struct |-> "StructuredDocumentation", key |-> "params"]
      [] n = "StructuredDocumentationReturn" -> [struct |-> "StructuredDocumentation", key |-> "returns"]
      [] n = "StructuredDocumentationCustom" -> [struct |-> "StructuredDocumentation", key |-> "custom"]
      [] n = "Break" -> [struct |-> "Block", key |-> "statements"]
      [] n = "Continue" -> [struct |-> "Block", key |-> "statements"]
      [] n = "DoWhileStatement" -> [struct |-> "Block", key |-> "statements"]
      [] n = "EmitStatement" -> [struct |-> "Block", key |-> "statements"]
      [] n = "ForStatement" -> [struct |-> "Block", key |-> "statements"]
      [] n = "IfStatement" -> [struct |-> "Block", key |-> "statements"]
      [] n = "InlineAssembly" -> [struct |-> "Block", key |-> "statements"]
      [] n = "PlaceholderStatement" -> [struct |-> "Block", key |-> "statements"]
      [] n = "Return" -> [struct |-> "Block", key |-> "statements"]
      [] n = "RevertStatement" -> [struct |-> "Block", key |-> "statements"]
      [] n = "TryStatement" -> [struct |-> "Block", key |-> "statements"]
      [] n = "UncheckedBlock" -> [struct |-> "Block", key |-> "statements"]
      [] n = "WhileStatement" -> [struct |-> "Block", key |-> "statements"]
      [] n = "CommonType" -> [struct |-> "BinaryOperation", key |-> "commonType"]
      [] n = "FunctionCallOptions" -> [struct |-> "FunctionCall", key |-> "expression"]
      [] n = "ExternalReference" -> [struct |-> "InlineAssembly", key |-> "externalReferences"]
      [] n = "TryCatchClause" -> [struct |-> "TryStatement", key |-> "clauses"]

NodeKinds ==
    {"SourceUnit", "TypeDescriptions", "CommonType",
     "ContractDefinition", "VariableDeclaration", "BinaryOperation",
     "FunctionCall", "IfStatement", "Block",
     "Conditional", "VariableDeclarationStatement", "FunctionDefinition",
     "MemberAccess", "UnaryOperation", "Assignment",
     "IndexAccess", "TupleExpression", "Return",
     "UncheckedBlock", "ExpressionStatement", "ForStatement",
     "Mapping", "ArrayTypeName", "WhileStatement",
     "ModifierDefinition", "ModifierInvocation", "NewExpression",
     "EnumDefinition", "UserDefinedValueTypeDefinition", "ErrorDefinition",
     "EventDefinition", "FunctionTypeName", "StructDefinition",
     "TryCatchClause", "TryStatement", "ElementaryTypeNameExpression",
     "EmitStatement", "InheritanceSpecifier", "InlineAssembly",
     "OverrideSpecifier", "ParameterList", "RevertStatement",
     "UserDefinedTypeName", "UsingForDirective", "Break",
     "Continue", "ElementaryTypeName", "EnumValue",
     "Identifier", "IdentifierPath", "ImportDirective",
     "Literal", "PlaceholderStatement", "PragmaDirective",
     "StructuredDocumentation", "FunctionCallOptions", "ExternalReference",
     "SymbolAlias", "StructuredDocumentationParameter", "StructuredDocumentationReturn",
     "StructuredDocumentationCustom", "DoWhileStatement"}

Wrap(ty, name, j) ==
    LET inner == SelectSeq(ty, LAMBDA w : w \notin {"Option", "Vec"})
        w == IF Head(inner) = "Enum" /\ ~IsNode(name)
             THEN JObj(Tagged(name, j.items)) ELSE j
    IN  IF \E i \in DOMAIN ty : ty[i] = "Vec" THEN JArr(<<w>>) ELSE w

HostField(name) ==
    LET fs == StructFields(HostOf(name).struct)
    IN  fs[CHOOSE i \in DOMAIN fs : fs[i].key = HostOf(name).key]

RECURSIVE Embed(_, _)
Embed(name, j) ==
    IF name = "SourceUnit" THEN j
    ELSE LET h == HostOf(name)
         IN  Embed(h.struct,
                   JObj(AsNode(h.struct,
                               Put(BaseMembers(StructFields(h.struct)), h.key,
                                   Wrap(HostField(name).ty, name, j)))))

(* PathTo: where Embed puts the node, as the walk from the root names it.  *)
RECURSIVE PathTo(_)
PathTo(name) ==
    IF name = "SourceUnit" THEN <<>>
    ELSE PathTo(HostOf(name).struct) \o <<Key(HostOf(name).key)>>
            \o IF \E i \in DOMAIN HostField(name).ty :
                      HostField(name).ty[i] = "Vec"
               THEN <<Idx(0)>> ELSE <<>>

Doc(j, kind, path) == [json |-> j, kind |-> kind, path |-> path]

(* Top-level node sequences: every order, with repeats, of three kinds and *)
(* a second pragma that differs from the first in its id only.             *)
MaxNodes == 3

TopNodes(pragma) ==
    {pragma}
    \cup {Base(<<"Struct", s>>) : s \in {"ImportDirective", "ContractDefinition"}}
    \cup {JObj(Put(pragma.items, "id", JNum(2)))}

\* unit: the members of a well-formed SourceUnit; pragma: a well-formed
\* PragmaDirective.
NodeSequenceDocs(unit, pragma) ==
    {Doc(JObj(AsNode("SourceUnit", Put(unit, "nodes", JArr(ns)))),
         "SourceUnit", <<>>) :
        ns \in UNION {[1..k -> TopNodes(pragma)] : k \in 0..MaxNodes}}

(* A SourceUnit with a member no field claims that holds an object with   *)
(* the nodeType of a Literal: one without the fields of a Literal, one     *)
(* with them.                                                              *)
StrayNodeDocs(unit) ==
    {Doc(JObj(AsNode("SourceUnit", Append(unit, Member("extra", x)))),
         "SourceUnit", <<>>) :
        x \in {JObj(Tagged("Literal", <<>>)), Base(<<"Struct", "Literal">>)}}

(* A SourceUnit whose one node is a pragma with a number for nodeType, and  *)
(* a SourceUnit with such an object under a member no field claims.        *)
NonStringTagDocs(unit, pragma) ==
    {Doc(JObj(AsNode("SourceUnit", ms)), "SourceUnit", <<>>) :
        ms \in {Put(unit, "nodes",
                    JArr(<<JObj(Put(pragma.items, TagKey, JNum(1)))>>)),
                Append(unit,
                       Member("extra",
                              JObj(Put(pragma.items, TagKey, JNum(1)))))}}

SourceUnitSequences(unit, pragma) ==
    NodeSequenceDocs(unit, pragma)
    \cup StrayNodeDocs(unit)
    \cup NonStringTagDocs(unit, pragma)

(* A SourceUnit read as the root: besides a node of each kind, varied and  *)
(* put in its place (DocsOf), the sequences of top-level nodes and the     *)
(* objects under members no field claims.                                  *)
SourceUnitDocs ==
    SourceUnitSequences(BaseMembers(StructFields("SourceUnit")),
                        Base(<<"Struct", "PragmaDirective">>))

(* The families a node position can expect (decode_node).                  *)
DispatchFamilies ==
    {"SourceUnitNode", "ContractDefinitionNode", "Statement", "Expression",
     "TypeName", "FunctionCallExpression", "BlockNode"}

DocRoots ==
    {<<"Struct", s>> : s \in NodeKinds}
    \cup {<<"Struct", "types_ElementaryTypeName">>,
          <<"Struct", "identifier_Identifier">>}

FamilyRoots == {<<"Enum", e>> : e \in DispatchFamilies}

(* FunctionDefinition records over every visibility, with and without a  *)
(* functionSelector, implemented or not, with and without a body.          *)
FunctionCombinations ==
    LET base == BaseMembers(StructFields("FunctionDefinition"))
        vis == UnitNames("Visibility")
        with(ms, present, k, j) == IF present THEN Put(ms, k, j) ELSE ms
    IN  {JObj(AsNode("FunctionDefinition",
                     with(with(Put(Put(base, "visibility", JStr(<<vis[v]>>)),
                                   "implemented", JBool(i)),
                               sel, "functionSelector",
                               JStr(<<"c", "0", "f", "e">>)),
                          body, "body", Base(<<"Struct", "Block">>)))) :
            v \in DOMAIN vis, i \in BOOLEAN, sel \in BOOLEAN,
            body \in BOOLEAN}

(* The documents read at a root: for a record its variations, for a        *)
(* family the variations of each of its records under the record's tag and *)
(* the samples of the family, for a SourceUnit a node of each kind, varied *)
(* and put in one place where it can stand.                                *)
DocsOf(root) ==
    LET unit == root = <<"Struct", "SourceUnit">>
        struct == root[1] = "Struct"
        names == IF unit THEN NodeKinds
                 ELSE IF struct THEN {root[2]}
                 ELSE DOMAIN EnumVariants(root[2])
        record(s) == IF struct THEN s ELSE EnumVariants(root[2])[s]
        place(s, j) == IF unit THEN Doc(Embed(s, j), s, PathTo(s))
                       ELSE Doc(j, s, <<>>)
    IN  UNION {{place(s, JObj(IF struct THEN AsNode(s, ms)
                              ELSE Tagged(s, ms))) :
                   ms \in Vary(record(s))} : s \in names}
        \cup (IF unit THEN SourceUnitDocs
              ELSE IF root = <<"Struct", "FunctionDefinition">>
              THEN {Doc(j, root[2], <<>>) : j \in FunctionCombinations}
              ELSE IF struct THEN {}
              ELSE {Doc(x, "", <<>>) : x \in Samples(root)})

NoFocus == [kind |-> "", path |-> <<>>]

(* The String find_error_in_value returns: empty, or the node type, the    *)
(* path of the node, the path and the text of the error.                   *)
NoReport ==
    [found |-> FALSE, kind |-> "", path |-> <<>>, field |-> <<>>,
     msg |-> "", what |-> <<>>]

Report(kind, path, field, err) ==
    [found |-> TRUE, kind |-> kind, path |-> path, field |-> field,
     msg |-> err.msg, what |-> err.what]

NoDoc == JNull

NoResult == Fail("none", <<>>)

----------------------------------------------------------------------------
(* StandardJsonInput (input.rs and standard_json_input.rs): the values     *)

InputRevisions == {"input.rs", "standard_json_input.rs"}

MaxCalls == 2

(* Source names: plain ones, and spellings of one path that differ in a    *)
(* trailing or doubled separator or a "." part.                            *)
Names ==
    {<<"A">>, <<"A", "/">>, <<"A", "/", ".">>, <<".", "/", "A">>, <<"B">>,
     <<"A", "/", "B">>, <<"A", "/", "/", "B">>}

NoHash == [some |-> FALSE, s |-> <<>>]

SomeHash(h) == [some |-> TRUE, s |-> h]

(* Source { keccak256, content }, with SourceContent::Content { content }  *)
(* or SourceContent::Urls { urls }.                                        *)
Content(c) == [kind |-> "Content", content |-> c, urls |-> <<>>]

Urls(us) == [kind |-> "Urls", content |-> <<>>, urls |-> us]

Source(hash, content) == [keccak256 |-> hash, content |-> content]

NoSource == Source(NoHash, [kind |-> "none", content |-> <<>>, urls |-> <<>>])

Entry(name, source) == [name |-> name, source |-> source]

ContentSamples == {<<"x">>, <<"y">>}

UrlSamples == {<<<<"u">>>>}

HashSamples == {NoHash, SomeHash(<<"h">>)}

NoSettings == [some |-> FALSE, engine |-> ""]

SettingsSamples == {[some |-> TRUE, engine |-> e] : e \in {"", "chc"}}

(* The serialized input: language, the members of "sources" in the order   *)
(* of the JSON object, and the "settings" object.                          *)
JInput(language, sources, settings) ==
    [language |-> language, sources |-> sources, settings |-> settings]

NoJson == JInput("", <<>>, JNull)

(* Path::components: the parts between separators; empty parts and "."     *)
(* are dropped, except a "." that opens the path; a leading separator is   *)
(* the root.                                                               *)
components(name) ==
    LET parts == Split(name, "/")
        keep == {i \in DOMAIN parts :
                    /\ parts[i] # <<>>
                    /\ parts[i] = <<".">> => i = 1}
        kept == SelectSeq([i \in DOMAIN parts |->
                              IF i \in keep THEN parts[i] ELSE <<>>],
                          LAMBDA p : p # <<>>)
    IN  (IF name[1] = "/" THEN <<<<"/">>>> ELSE <<>>) \o kept

(* The equality of the map's keys: String in input.rs, PathBuf in          *)
(* standard_json_input.rs, which compares by components.                   *)
SameKey(rev, a, b) ==
    IF rev = "input.rs" THEN a = b ELSE components(a) = components(b)

\* Variant: a second insert under a key leaves the first entry in place.
insert_keep_first(rev, map, name, source) ==
    IF \E e \in map : SameKey(rev, e.name, name) THEN map
    ELSE map \cup {Entry(name, source)}

(* BTreeMap::insert and HashMap::insert: a new key adds an entry; for a    *)
(* key the map has, the value is replaced and the key stays as it was.     *)
insert(rev, map, name, source) ==
    IF \E e \in map : SameKey(rev, e.name, name)
    THEN {IF SameKey(rev, e.name, name) THEN Entry(e.name, source) ELSE e :
             e \in map}
    ELSE map \cup {Entry(name, source)}

----------------------------------------------------------------------------
(* Source-location runs: a value is encoded and decoded again, or a text   *)
(* is decoded, encoded and decoded again.                                  *)

\* The variables of the runs that are not under way keep their idle values.
LocIdle ==
    /\ locRev = "none" /\ locPc = "idle" /\ locText = <<>>
    /\ locInput = [kind |-> "none", val |-> NoLoc, text |-> <<>>]
    /\ locResult = NoLoc /\ locFirst = NoLoc

ElIdle ==
    /\ elRev = "none" /\ elPc = "idle" /\ elText = <<>>
    /\ elInput = [kind |-> "none", val |-> NoElem, text |-> <<>>]
    /\ elResult = NoElem /\ elFirst = NoElem
    /\ elProbe = <<>> /\ elProbeResult = NoElem

DocIdle ==
    /\ docRoot = <<>> /\ docPc = "idle"
    /\ docInput = NoDoc /\ docJson = NoDoc
    /\ docResult = NoResult /\ docFirst = NoResult
    /\ docFocus = NoFocus /\ docReport = NoReport

InIdle ==
    /\ inRev = "none" /\ inLanguage = "none" /\ inSources = {}
    /\ inModelChecker = NoSettings
    /\ inLast = [n \in Names |-> NoSource] /\ inCalls = 0
    /\ inJson = NoJson

OutsideLocation == <<elVars, docVars, inVars>>

OutsideElementary == <<locVars, docVars, inVars>>

InitLocation ==
    /\ ElIdle /\ DocIdle /\ InIdle
    /\ locRev \in LocRevisions
    /\ \/ \E v \in LocValues :
              /\ locInput = [kind |-> "value", val |-> v, text |-> <<>>]
              /\ locPc = "value"
       \/ \E t \in LocTexts :
              /\ locInput = [kind |-> "text", val |-> NoLoc, text |-> t]
              /\ locPc = "text"
    /\ locText = locInput.text
    /\ locResult = locInput.val
    /\ locFirst = NoLoc

\* serde_json::to_string of a SourceLocation held by the run.
LocSerialize ==
    /\ locPc \in {"value", "decoded"}
    /\ locResult.ok
    /\ locText' = encode_location(locRev, locResult)
    /\ locPc' = IF locPc = "value" THEN "encoded" ELSE "reencoded"
    /\ UNCHANGED <<locRev, locInput, locResult, locFirst>>
    /\ UNCHANGED OutsideLocation

\* serde_json::from_str::<SourceLocation> of the text held by the run.
LocDeserialize ==
    /\ locPc \in {"text", "encoded", "reencoded"}
    /\ locResult' = decode_location(locRev, locText)
    /\ locFirst' = IF locPc = "text" THEN locResult' ELSE locFirst
    /\ locPc' = CASE locPc = "text" -> "decoded"
                  [] locPc = "encoded" -> "redecoded"
                  [] OTHER -> "done"
    /\ UNCHANGED <<locRev, locInput, locText>>
    /\ UNCHANGED OutsideLocation

NextLocation == LocSerialize \/ LocDeserialize

SpecLocation == InitLocation /\ [][NextLocation]_vars

----------------------------------------------------------------------------
(* Elementary-type runs: a value is encoded and decoded again, or a text   *)
(* is decoded, encoded and decoded again; after a rejection the caller     *)
(* may decode a second text and compare the two errors.                    *)

InitElementary ==
    /\ LocIdle /\ DocIdle /\ InIdle
    /\ elRev \in ElemRevisions
    /\ \/ \E v \in ElemValues :
              /\ elInput = [kind |-> "value", val |-> v, text |-> <<>>]
              /\ elPc = "value"
       \/ \E t \in ElTexts :
              /\ elInput = [kind |-> "text", val |-> NoElem, text |-> t]
              /\ elPc = "text"
    /\ elText = elInput.text
    /\ elResult = elInput.val
    /\ elFirst = NoElem
    /\ elProbe = <<>>
    /\ elProbeResult = NoElem

\* serde_json::to_string of the ElementaryType held by the run.
ElSerialize ==
    /\ elPc \in {"value", "decoded"}
    /\ elResult.ok
    /\ elText' = encode_elementary(elRev, elResult)
    /\ elPc' = IF elPc = "value" THEN "encoded" ELSE "reencoded"
    /\ UNCHANGED <<elRev, elInput, elResult, elFirst, elProbe, elProbeResult>>
    /\ UNCHANGED OutsideElementary

\* serde_json::from_str::<ElementaryType> of the text held by the run.
ElDeserialize ==
    /\ elPc \in {"text", "encoded", "reencoded"}
    /\ elResult' = decode_elementary(elRev, elText)
    /\ elFirst' = IF elPc = "text" THEN elResult' ELSE elFirst
    /\ elPc' = CASE elPc = "text" -> "decoded"
                 [] elPc = "encoded" -> "redecoded"
                 [] OTHER -> "done"
    /\ UNCHANGED <<elRev, elInput, elText, elProbe, elProbeResult>>
    /\ UNCHANGED OutsideElementary

\* serde_json::from_str::<ElementaryType> of a second text, after the first
\* text was rejected.
ElDeserializeProbe ==
    /\ elPc = "decoded"
    /\ ~elResult.ok
    /\ \E t \in ElProbeTexts :
           /\ elProbe' = t
           /\ elProbeResult' = decode_elementary(elRev, t)
    /\ elPc' = "compared"
    /\ UNCHANGED <<elRev, elInput, elText, elResult, elFirst>>
    /\ UNCHANGED OutsideElementary

NextElementary == ElSerialize \/ ElDeserialize \/ ElDeserializeProbe

SpecElementary == InitElementary /\ [][NextElementary]_vars

----------------------------------------------------------------------------
(* Properties of the source-location codec                                 *)

IsDigitString(p) == p # <<>> /\ \A i \in 1..Len(p) : IsDigit(p[i])

RECURSIVE StripZeros(_)
StripZeros(p) ==
    IF Len(p) > 1 /\ Head(p) = "0" THEN StripZeros(Tail(p)) ELSE p

\* a <= b for two digit strings without superfluous leading zeros
DecimalLeq(a, b) ==
    \/ Len(a) < Len(b)
    \/ /\ Len(a) = Len(b)
       /\ \/ a = b
          \/ \E i \in 1..Len(a) :
                 /\ \A j \in 1..(i - 1) : a[j] = b[j]
                 /\ DigitVal(a[i]) < DigitVal(b[i])

\* The part denotes a non-negative integer that fits the target width:
\* digits, after at most one leading '+', not above the maximum.
DenotesUnsigned(p, maxDigits) ==
    LET body == IF p # <<>> /\ Head(p) = "+" THEN Tail(p) ELSE p
    IN  IsDigitString(body) /\ DecimalLeq(StripZeros(body), maxDigits)

UsizeMaxDigits == <<"2","1","4","7","4","8","3","6","4","7">>

RECURSIVE DecimalValue(_)
DecimalValue(p) ==
    IF p = <<>> THEN 0
    ELSE DecimalValue(SubSeq(p, 1, Len(p) - 1)) * 10 + DigitVal(p[Len(p)])

\* The part is the plain decimal numeral of n.
CanonicalDecimal(p, n) ==
    /\ IsDigitString(p)
    /\ Len(p) = 1 \/ Head(p) # "0"
    /\ Len(p) <= 10
    /\ DecimalValue(p) = n

IsCanonicalNumeral(p) ==
    IsDigitString(p) /\ (Len(p) = 1 \/ Head(p) # "0")

WireForm(t, v) ==
    LET parts == Split(t, ":") IN
    /\ Len(parts) = 3
    /\ CanonicalDecimal(parts[1], v.offset)
    /\ CanonicalDecimal(parts[2], v.length)
    /\ CanonicalDecimal(parts[3], v.source_index)

Text_638_8_101 == <<"6","3","8",":","8",":","1","0","1">>

\* C3: encoding a SourceLocation and decoding the text again succeeds and
\* yields the same three integers, zeros included, and the encoded text is
\* exactly "<offset>:<length>:<sourceIndex>"; (638, 8, 101) gives "638:8:101".
C3_LocationRoundTrip ==
    /\ locPc \in {"encoded", "redecoded"} =>
           /\ WireForm(locText, locInput.val)
           /\ locInput.val = LocOk(638, 8, 101) => locText = Text_638_8_101
    /\ locPc = "redecoded" => locResult = locInput.val

C3_Witness ==
    /\ locPc = "redecoded"
    /\ locInput.val = LocOk(638, 0, 0)
    /\ locResult = LocOk(638, 0, 0)
    /\ locText = <<"6","3","8",":","0",":","0">>

LocFieldOfPart(i) ==
    CASE i = 1 -> {"offset"}
      [] i = 2 -> {"length"}
      [] OTHER -> {"source index", "source_index"}

LocRejectedExamples ==
    { <<"6","3","8",":","8">>,
      <<"6","3","8",":","8",":","1","0","1",":","e","x","t","r","a">>,
      <<"a","b","c",":","8",":","1","0","1">>,
      <<"6","3","8",":","x","y","z",":","1","0","1">>,
      <<"6","3","8",":","8",":","a","b","c">> }

\* C4: decoding a text succeeds exactly when splitting it on ':' gives three
\* parts that each denote a non-negative integer of the target width; with
\* another part count the failure is the format error, otherwise it is the
\* field error of the first part (offset, length, source index) that does
\* not parse.  The five texts of the tests are rejected.
C4_LocationDecodeOutcome ==
    locPc = "decoded" =>
        LET parts == Split(locInput.text, ":")
            good(i) == DenotesUnsigned(parts[i], UsizeMaxDigits)
        IN  /\ locResult.ok <=> (Len(parts) = 3 /\ \A i \in 1..3 : good(i))
            /\ Len(parts) # 3 =>
                   /\ locResult.kind \in {"invalid source location format",
                                          "invalid source location"}
                   /\ locResult.field = "none"
            /\ (Len(parts) = 3 /\ \E i \in 1..3 : ~good(i)) =>
                   LET first == CHOOSE i \in 1..3 :
                                    ~good(i) /\ \A j \in 1..(i - 1) : good(j)
                   IN  /\ locResult.kind = "invalid field"
                       /\ locResult.field \in LocFieldOfPart(first)
            /\ locInput.text \in LocRejectedExamples => ~locResult.ok

C4_Witness ==
    /\ locPc = "decoded"
    /\ locInput.text = <<"-", ":", " ", ":", "0">>
    /\ ~locResult.ok
    /\ locResult.field = "offset"

CanonicalLocText(t) ==
    LET parts == Split(t, ":") IN
    Len(parts) = 3 /\ \A i \in 1..3 : IsCanonicalNumeral(parts[i])

HasChar(t, c) == \E i \in 1..Len(t) : t[i] = c

\* C6: the accepted texts are three non-negative base-10 integers joined by
\* colons; a text with whitespace, with a sign character or with an empty
\* component is rejected.
C6_LocationStrictWireForm ==
    locPc = "decoded" =>
        LET t == locInput.text
            parts == Split(t, ":")
        IN  /\ locResult.ok =>
                   Len(parts) = 3 /\ \A i \in 1..3 : IsDigitString(parts[i])
            /\ ( \/ HasChar(t, " ") \/ HasChar(t, "+") \/ HasChar(t, "-")
                 \/ \E i \in 1..Len(parts) : parts[i] = <<>> )
                   => ~locResult.ok

----------------------------------------------------------------------------
(* Properties of the elementary-type codec                                 *)

\* C2: encoding any ElementaryType value and decoding the text again
\* succeeds and yields the same value, for every variant.
C2_ElementaryRoundTrip ==
    elPc = "redecoded" => elResult = elInput.val

\* The values the data model allows: integer widths 8..256 in steps of 8,
\* fixed byte sizes 1..32.
InDataModel(v) ==
    CASE v.tag \in {"Uint", "Int"} -> v.a >= 8 /\ v.a <= 256 /\ v.a % 8 = 0
      [] v.tag = "FixedBytes" -> v.a >= 1 /\ v.a <= 32
      [] OTHER -> TRUE

C7_OutOfRangeExamples ==
    { T_uint \o <<"7">>, T_uint \o <<"0">>, T_int \o <<"6","5","5","3","5">>,
      T_bytes \o <<"0">>, T_bytes \o <<"3","3">> }

\* C7: every decoded ElementaryType is one the data model allows, and a
\* text whose suffix is outside the ranges does not decode to a value.
C7_DecodedInDataModel ==
    elPc = "decoded" =>
        /\ elResult.ok => InDataModel(elResult)
        /\ elInput.text \in C7_OutOfRangeExamples => ~elResult.ok

U16MaxDigits == <<"6","5","5","3","5">>

U8MaxDigits == <<"2","5","5">>

\* C8: "uint" is Uint(256) and "int" is Int(256); "uintN" and "intN" with a
\* non-empty numeric suffix N in range are Uint(N) and Int(N); the default
\* applies to no other family: "bytes" is dynamic Bytes, "ufixed" and
\* "fixed" without a suffix fail.
C8_DefaultWidth ==
    elPc = "decoded" =>
        LET t == elInput.text
            numeric(suf) == IsDigitString(suf)
                            /\ DecimalLeq(StripZeros(suf), U16MaxDigits)
        IN  /\ t = T_uint => elResult = Elem("Uint", 256, 0)
            /\ t = T_int => elResult = Elem("Int", 256, 0)
            /\ (StartsWith(t, T_uint) /\ numeric(StripPrefix(t, T_uint))) =>
                   elResult = Elem("Uint",
                       DecimalValue(StripZeros(StripPrefix(t, T_uint))), 0)
            /\ (StartsWith(t, T_int) /\ numeric(StripPrefix(t, T_int))) =>
                   elResult = Elem("Int",
                       DecimalValue(StripZeros(StripPrefix(t, T_int))), 0)
            /\ t = T_bytes => elResult = Elem("Bytes", 0, 0)
            /\ t \in {T_ufixed, T_fixed} => ~elResult.ok

C8_Witness ==
    /\ elPc = "decoded"
    /\ elRev = "ast/types.rs"
    /\ elInput.text = T_int
    /\ elResult = Elem("Int", 256, 0)

ElKeywords == {T_address, T_payable, T_bool, T_string, T_bytes}

WellFormedFixedSuffix(suf) ==
    /\ HasX(suf)
    /\ DenotesUnsigned(SubSeq(suf, 1, FirstX(suf) - 1), U8MaxDigits)
    /\ DenotesUnsigned(SubSeq(suf, FirstX(suf) + 1, Len(suf)), U8MaxDigits)

\* The text is a keyword or a family prefix followed by a suffix that
\* parses for that family.
RecognizedSpelling(t) ==
    \/ t \in ElKeywords
    \/ /\ StartsWith(t, T_uint)
       /\ LET suf == StripPrefix(t, T_uint)
          IN  suf = <<>> \/ DenotesUnsigned(suf, U16MaxDigits)
    \/ /\ StartsWith(t, T_int)
       /\ LET suf == StripPrefix(t, T_int)
          IN  suf = <<>> \/ DenotesUnsigned(suf, U16MaxDigits)
    \/ /\ StartsWith(t, T_bytes)
       /\ DenotesUnsigned(StripPrefix(t, T_bytes), U16MaxDigits)
    \/ StartsWith(t, T_ufixed) /\ WellFormedFixedSuffix(StripPrefix(t, T_ufixed))
    \/ StartsWith(t, T_fixed) /\ WellFormedFixedSuffix(StripPrefix(t, T_fixed))

Text_uint9999999999 == T_uint \o <<"9","9","9","9","9","9","9","9","9","9">>

C9_RejectedExamples ==
    { Text_uint9999999999,
      T_uint \o <<"a","b","c">>, T_int \o <<"a","b","c">>,
      T_bytes \o <<"a","b","c">>,
      T_ufixed \o <<"8">>, T_ufixed \o <<"8","x">>, T_ufixed \o <<"x","8">>,
      T_ufixed \o <<"2","5","6","x","2","5","6">>, T_fixed \o <<"8">> }

\* C9: a text that is neither a keyword nor a family prefix with a
\* well-formed suffix is rejected, never turned into some variant;
\* "uint9999999999" is rejected for its size, and the listed malformed
\* texts are rejected.
C9_UnrecognizedIsFailure ==
    elPc = "decoded" =>
        /\ ~RecognizedSpelling(elInput.text) => ~elResult.ok
        /\ elInput.text \in C9_RejectedExamples => ~elResult.ok
        /\ elInput.text = Text_uint9999999999 =>
               /\ elResult.cause = "PosOverflow"
               /\ elRev = "ast/types.rs" => elResult.err = "invalid integer size"

C9_Witness ==
    /\ elPc = "decoded"
    /\ elRev = "ast/types.rs"
    /\ elInput.text = T_bytes \o <<"a","b","c">>
    /\ ~elResult.ok
    /\ elResult.err = "invalid bytes size"

\* The grammar family that the match of the decoder hands the text to.
Family(t) ==
    IF StartsWith(t, T_uint) THEN "uint"
    ELSE IF StartsWith(t, T_int) THEN "int"
    ELSE IF StartsWith(t, T_bytes) THEN "bytes"
    ELSE IF StartsWith(t, T_ufixed) THEN "ufixed"
    ELSE IF StartsWith(t, T_fixed) THEN "fixed"
    ELSE "none"

\* The text was handed to a family and its suffix did not parse.
SuffixRejected(t, r) ==
    Family(t) # "none" /\ ~r.ok /\ r.err # "unknown elementary type"

FamilyGroup(f) ==
    CASE f \in {"uint", "int"} -> "integer"
      [] f = "bytes" -> "bytes"
      [] f \in {"ufixed", "fixed"} -> "fixed-point"
      [] OTHER -> "none"

ErrKindsOf(f) ==
    CASE f \in {"uint", "int"} -> {"invalid integer size"}
      [] f = "bytes" -> {"invalid bytes size"}
      [] f = "ufixed" -> {"invalid ufixed format", "invalid total bits",
                          "invalid fractional bits"}
      [] f = "fixed" -> {"invalid fixed format", "invalid total bits",
                         "invalid fractional bits"}
      [] OTHER -> {}

----------------------------------------------------------------------------
(* The document codec: serde_json::from_str::<T> and serde_json::to_string *)

OutsideDocument == <<locVars, elVars, inVars>>

InitRoots(roots) ==
    /\ LocIdle /\ ElIdle /\ InIdle
    /\ docRoot \in roots
    /\ \E d \in DocsOf(docRoot) :
           /\ docInput = d.json
           /\ docFocus = [kind |-> d.kind, path |-> d.path]
    /\ docJson = docInput
    /\ docResult = NoResult /\ docFirst = NoResult
    /\ docReport = NoReport
    /\ docPc = "text"

InitDocument == InitRoots(DocRoots)

(* from_str: decode the JSON held; the first result of a run is kept.      *)
DocDeserialize ==
    /\ docPc \in {"text", "encoded"}
    /\ docResult' = Decode(docRoot, docJson)
    /\ docFirst' = IF docPc = "text" THEN docResult' ELSE docFirst
    /\ docPc' = IF docPc = "text" THEN "decoded" ELSE "redecoded"
    /\ UNCHANGED <<docRoot, docInput, docJson, docFocus, docReport>>
    /\ UNCHANGED OutsideDocument

(* to_string: encode the value a successful decode produced.               *)
DocSerialize ==
    /\ docPc = "decoded"
    /\ docResult.ok
    /\ docJson' = Encode(docRoot, docResult.v)
    /\ docPc' = "encoded"
    /\ UNCHANGED <<docRoot, docInput, docResult, docFirst, docFocus, docReport>>
    /\ UNCHANGED OutsideDocument

NextDocument == DocDeserialize \/ DocSerialize

SpecDocument == InitDocument /\ [][NextDocument]_vars

----------------------------------------------------------------------------
(* C1: decoding a document, encoding the result and decoding that again    *)
(* gives a result equal to the first decode.                               *)
C1_DocumentRoundTrip ==
    docPc = "redecoded" => docResult.ok /\ ResultEq(docResult, docFirst)

(* A SourceUnit holding at least one node, decoded, encoded to JSON that   *)
(* differs from the JSON read, and decoded again to an equal value.        *)
C1_Witness ==
    /\ docPc = "redecoded"
    /\ docRoot = <<"Struct", "SourceUnit">>
    /\ docFirst.ok
    /\ \E p \in DOMAIN docFirst.v.items :
           /\ docFirst.v.items[p].k = "nodes"
           /\ docFirst.v.items[p].v.items # <<>>
    /\ ResultEq(docResult, docFirst)
    /\ docJson # docInput

----------------------------------------------------------------------------
(* Dispatch                                                                *)

TagMembers(j) == {p \in DOMAIN j.items : j.items[p].k = TagKey}

\* The discriminator of a node object, when it has exactly one, a string.
HasTag(j) ==
    /\ j.t = "obj"
    /\ Cardinality(TagMembers(j)) = 1
    /\ \A p \in TagMembers(j) : j.items[p].v.t = "str"

TagOf(j) == j.items[CHOOSE p \in TagMembers(j) : TRUE].v.s

KnownTag(e, j) ==
    HasTag(j) /\ Len(TagOf(j)) = 1 /\ TagOf(j)[1] \in DOMAIN EnumVariants(e)

(* Dispatch on the discriminator: a node read through one of the families *)

InitDispatch == InitRoots(FamilyRoots)

SpecDispatch == InitDispatch /\ [][NextDocument]_vars

(* C11: a node whose discriminator is not in the table of the family       *)
(* expected fails with the unknown-variant error carrying that value; a    *)
(* node without discriminator fails; a node with a known discriminator     *)
(* that fails does not fail with the error an unknown discriminator gets.  *)
C11_UnknownDiscriminator ==
    (docPc = "decoded" /\ docRoot[1] = "Enum" /\ docInput.t = "obj") =>
        /\ (HasTag(docInput) /\ ~KnownTag(docRoot[2], docInput)) =>
               docResult = UnknownVariant(TagOf(docInput), docRoot[2])
        /\ TagMembers(docInput) = {} =>
               docResult = Fail("missing field", <<TagKey>>)
        /\ (KnownTag(docRoot[2], docInput) /\ ~docResult.ok) =>
               docResult # UnknownVariant(TagOf(docInput), docRoot[2])

(* An Expression tagged "Unknown" has been rejected as unknown, and the    *)
(* run is one of a family with entries.                                    *)
C11_Witness ==
    /\ docPc = "decoded"
    /\ docRoot = <<"Enum", "Expression">>
    /\ HasTag(docInput)
    /\ TagOf(docInput) = <<"Unknown">>
    /\ docResult.err.msg = "unknown variant"

\* The tables that route a discriminator: the families and try_parse_node.
RoutingTables ==
    {EnumVariants(e) : e \in DispatchFamilies} \cup {TryParseTable}

FieldKeys(name) ==
    {StructFields(name)[i].key : i \in DOMAIN StructFields(name)}

(* C12: a discriminator value is routed to one record type by every table  *)
(* that knows it, and a node decoded through a family has the members of   *)
(* that record type.                                                       *)
C12_DiscriminatorDeterminesShape ==
    /\ \A t1 \in RoutingTables, t2 \in RoutingTables :
           \A tag \in DOMAIN t1 \cap DOMAIN t2 : t1[tag] = t2[tag]
    /\ (docPc = "decoded" /\ docRoot[1] = "Enum" /\ docResult.ok) =>
           \A t \in RoutingTables :
              docResult.v.t \in DOMAIN t =>
                 {docResult.v.items[p].k : p \in DOMAIN docResult.v.items}
                     = FieldKeys(t[docResult.v.t])

(* An Identifier, known to Expression, FunctionCallExpression and          *)
(* try_parse_node, has been decoded through FunctionCallExpression.        *)
C12_Witness ==
    /\ docPc = "decoded"
    /\ docRoot = <<"Enum", "FunctionCallExpression">>
    /\ docResult.ok
    /\ docResult.v.t = "Identifier"
    /\ "Identifier" \in DOMAIN EnumVariants("Expression")
    /\ "Identifier" \in DOMAIN TryParseTable

----------------------------------------------------------------------------
(* The typed places of a document: the value itself and, following the     *)
(* schema, every value a field, an element or a variant reads inside it.   *)

MembersFor(f, ms) ==
    {p \in DOMAIN ms : ms[p].k = f.key \/ (f.alias # "" /\ ms[p].k = f.alias)}

RECURSIVE Parts(_, _)

FieldParts(fs, ms) ==
    UNION {UNION {Parts(fs[i].ty, ms[p].v) : p \in MembersFor(fs[i], ms)} :
              i \in DOMAIN fs}

Parts(ty, j) ==
    LET h == Head(ty)
    IN  {<<ty, j>>} \cup
        CASE h = "Option" ->
                IF j.t = "null" THEN {} ELSE Parts(Tail(ty), j)
          [] h = "Vec" /\ j.t = "arr" ->
                UNION {Parts(Tail(ty), j.items[p].v) : p \in DOMAIN j.items}
          [] h = "Map" /\ j.t = "obj" ->
                UNION {Parts(Tail(ty), j.items[p].v) : p \in DOMAIN j.items}
          [] h = "Struct" /\ j.t = "obj" ->
                FieldParts(StructFields(ty[2]), j.items)
          [] h = "Enum" /\ KnownTag(ty[2], j) ->
                FieldParts(StructFields(EnumVariants(ty[2])[TagOf(j)[1]]),
                           j.items)
          [] h = "Documentation" /\ j.t = "obj" ->
                FieldParts(StructFields("StructuredDocumentation"), j.items)
          [] OTHER -> {}

(* Whole: the decoded value v holds everything the JSON j holds at type    *)
(* ty: an array's elements one for one, a non-null optional as Some, a     *)
(* node as the record its discriminator names, a member as its field.      *)
RECURSIVE Whole(_, _, _)

WholeFields(fs, ms, v) ==
    /\ Len(v.items) = Len(fs)
    /\ \A i \in DOMAIN fs : \A p \in MembersFor(fs[i], ms) :
           Whole(fs[i].ty, ms[p].v, v.items[i].v)

Whole(ty, j, v) ==
    LET h == Head(ty)
    IN  CASE h = "Option" ->
                IF j.t = "null" THEN v = None
                ELSE v.t = "Some" /\ Whole(Tail(ty), j, v.items[1].v)
          [] h = "Vec" ->
                /\ v.t = "Vec" /\ Len(v.items) = Len(j.items)
                /\ \A p \in DOMAIN j.items :
                       Whole(Tail(ty), j.items[p].v, v.items[p].v)
          [] h = "Struct" ->
                v.t = ty[2] /\ WholeFields(StructFields(ty[2]), j.items, v)
          [] h = "Enum" ->
                /\ KnownTag(ty[2], j) /\ v.t = TagOf(j)[1]
                /\ WholeFields(StructFields(EnumVariants(ty[2])[v.t]),
                               j.items, v)
          [] h = "Documentation" /\ j.t = "obj" ->
                /\ v.t = "Documentation::Structured"
                /\ WholeFields(StructFields("StructuredDocumentation"),
                               j.items, v.items[1].v)
          [] OTHER -> v # None

HasMember(j, k) == \E p \in DOMAIN j.items : j.items[p].k = k

SourceUnitRequired == {"id", "absolutePath", "src", "nodes"}

(* C13: a SourceUnit is produced only if its four required members are     *)
(* there and every typed place of the document decodes on its own, and it  *)
(* then holds every node of the document, none left out and none replaced  *)
(* by a default; a failure anywhere below fails the whole decode, which    *)
(* then yields no value.                                                   *)
C13_NoPartialSuccess ==
    (docPc = "decoded" /\ docRoot = <<"Struct", "SourceUnit">>) =>
        /\ docResult.ok =>
              /\ \A k \in SourceUnitRequired : HasMember(docInput, k)
              /\ \A part \in Parts(docRoot, docInput) :
                     Decode(part[1], part[2]).ok
              /\ Whole(docRoot, docInput, docResult.v)
        /\ ~docResult.ok => docResult.v = None

(* A document with its four required members whose only fault is in a node *)
(* three or more steps below the root, and whose decode fails.             *)
C13_Witness ==
    /\ docPc = "decoded" /\ docRoot = <<"Struct", "SourceUnit">>
    /\ \A k \in SourceUnitRequired : HasMember(docInput, k)
    /\ Len(docFocus.path) >= 3
    /\ ~docResult.ok
    /\ \E part \in Parts(docRoot, docInput) :
           /\ part[1][1] \in {"Struct", "Enum"}
           /\ part[2] # docInput
           /\ ~Decode(part[1], part[2]).ok

----------------------------------------------------------------------------
(* The "nodes" array of a SourceUnit in JSON, and of a decoded SourceUnit. *)

MemberOf(j, k) == j.items[CHOOSE p \in DOMAIN j.items : j.items[p].k = k].v

NodesJson(j) == Children(MemberOf(j, "nodes"))

NodesDecoded(v) == Children(MemberOf(v, "nodes"))

\* What tells two top-level nodes apart: the kind and the id.
KindAndId(j) == <<TagOf(j), MemberOf(j, "id").n>>

(* C14: the decoded SourceUnit holds one node for each element of the JSON *)
(* "nodes" array, in the array's order (the i-th decoded node is the       *)
(* decode of the i-th element, of its kind and with its id), and encoding  *)
(* writes the nodes back in that order; equal elements stay repeated.      *)
C14_NodeOrderPreserved ==
    (/\ docRoot = <<"Struct", "SourceUnit">>
     /\ docPc \in {"decoded", "encoded"}
     /\ docFirst.ok) =>
        LET read == NodesJson(docInput)
            held == NodesDecoded(docFirst.v)
        IN  /\ Len(held) = Len(read)
            /\ \A i \in DOMAIN read :
                   /\ held[i].t = TagOf(read[i])[1]
                   /\ MemberOf(held[i], "id").n = MemberOf(read[i], "id").n
                   /\ Ok(held[i]) = Decode(<<"Enum", "SourceUnitNode">>, read[i])
            /\ docPc = "encoded" =>
                   /\ Len(NodesJson(docJson)) = Len(read)
                   /\ \A i \in DOMAIN read :
                          KindAndId(NodesJson(docJson)[i]) = KindAndId(read[i])

(* [Pragma, Import, Contract] decoded and encoded again; and a sequence    *)
(* with one node twice is also reached.                                    *)
C14_Witness ==
    /\ docRoot = <<"Struct", "SourceUnit">> /\ docPc = "encoded"
    /\ Len(NodesJson(docInput)) = 3
    /\ [i \in 1..3 |-> TagOf(NodesJson(docInput)[i])[1]]
          = <<"PragmaDirective", "ImportDirective", "ContractDefinition">>
    /\ [i \in 1..3 |-> TagOf(NodesJson(docJson)[i])[1]]
          = <<"PragmaDirective", "ImportDirective", "ContractDefinition">>

----------------------------------------------------------------------------
(* Error localization: find_deserialization_error reads the text into a    *)
(* serde_json::Value and walks it children first.                          *)

(* Every member key of the documents, in the order of their bytes: the     *)
(* order a BTreeMap<String, Value> iterates in.                            *)
KeyOrder ==
    <<"A", "B", "a", "absolutePath", "abstract", "anonymous",
      "argumentTypes", "arguments", "assignments", "author", "b",
      "baseContracts", "baseExpression", "baseFunctions", "baseName",
      "baseType", "block", "body", "canonicalName", "clauses",
      "commonType", "components", "condition", "constant", "content",
      "contractDependencies", "contractKind", "custom", "declaration",
      "declarations", "description", "dev", "documentation", "errorCall",
      "errorName", "eventCall", "eventSelector", "exportedSymbols",
      "expression", "externalReferences", "extra", "falseBody",
      "falseExpression", "file", "flags", "foreign", "formattedValue",
      "fullyImplemented", "functionReturnParameters", "functionSelector",
      "global", "hexValue", "id", "immutable", "implemented",
      "indexExpression", "indexed", "initialValue",
      "initializationExpression", "inputs", "internalType", "isConstant", "isLValue", "isOffset",
      "isPrefix", "isPure", "isSlot", "keyType", "kind", "lValueRequested",
      "leftExpression", "leftHandSide", "length", "libraryName", "license",
      "linearizedBaseContracts", "literals", "local", "loopExpression",
      "memberLocation", "memberName", "members", "modifierName",
      "modifiers", "mutability", "name", "nameLocation", "nameLocations",
      "names", "nodeType", "nodes", "notice", "operations", "operator",
      "options", "outputs", "overloadedDeclarations", "overrides", "parameterTypes",
      "parameters", "params", "pathNode", "prefix",
      "referencedDeclaration", "referenced_declaration",
      "returnParameterTypes", "returnParameters", "returns",
      "rightExpression", "rightHandSide", "scope", "sourceUnit", "src",
      "stateMutability", "stateVariable", "statements", "storageLocation",
      "subExpression", "subdenomination", "symbolAliases", "tag", "text",
      "title", "trueBody", "trueExpression", "tryCall", "type", "typeDescriptions",
      "typeIdentifier", "typeName", "typeString", "underlyingType",
      "unitAlias", "url", "usedErrors", "usedEvents", "usedInEvents",
      "value", "valueSize", "valueType", "virtual", "visibility">>

KeyRank(k) == CHOOSE i \in DOMAIN KeyOrder : KeyOrder[i] = k

(* serde_json's Map is a BTreeMap, or an IndexMap when the crate is built  *)
(* with preserve_order; the repository does not pin the feature.           *)
MapOrders == {"BTreeMap", "IndexMap"}

(* from_str::<Value>: of members with one key the last value stays, at the *)
(* place of the first; a BTreeMap then iterates by key.                    *)
RECURSIVE ValueOf(_, _)
ValueOf(j, order) ==
    IF j.t = "arr"
    THEN JArr([i \in DOMAIN j.items |-> ValueOf(j.items[i].v, order)])
    ELSE IF j.t = "obj"
    THEN LET ms == j.items
             n == Len(ms)
             firsts == SelectSeq([p \in 1..n |-> p],
                                 LAMBDA p : \A q \in 1..(p - 1) :
                                               ms[q].k # ms[p].k)
             last(p) == CHOOSE q \in p..n :
                            /\ ms[q].k = ms[p].k
                            /\ \A x \in (q + 1)..n : ms[x].k # ms[p].k
             uniq == <<>> \o [i \in DOMAIN firsts |->
                         Member(ms[firsts[i]].k,
                                ValueOf(ms[last(firsts[i])].v, order))]
         IN  JObj(IF order = "BTreeMap"
                  THEN SortSeq(uniq, LAMBDA a, b : KeyRank(a.k) < KeyRank(b.k))
                  ELSE uniq)
    ELSE j

(* serde_path_to_error: the path of the value being read when the error    *)
(* came up. A tagged or untagged enum buffers its content and reads the    *)
(* variant from the buffer, so nothing inside it is tracked.               *)
RECURSIVE TrackedPath(_, _)
TrackedPath(ty, path) ==
    LET h == Head(ty)
    IN  IF path = <<>> THEN <<>>
        ELSE CASE h = "Option" -> TrackedPath(Tail(ty), path)
               [] h \in {"Vec", "Map"} ->
                     <<Head(path)>> \o TrackedPath(Tail(ty), Tail(path))
               [] h = "Struct" ->
                     LET fs == StructFields(ty[2])
                         i == CHOOSE x \in DOMAIN fs :
                                  \/ fs[x].key = Head(path).key
                                  \/ fs[x].alias = Head(path).key
                     IN  <<Head(path)>> \o TrackedPath(fs[i].ty, Tail(path))
               [] OTHER -> <<>>

\* Variant: a nodeType outside the table is reported as an unknown variant.
try_parse_node_untabled(value, path, node_type) ==
    IF node_type \notin DOMAIN TryParseTable
    THEN Report(node_type, path, <<>>, Fail("unknown variant", <<>>).err)
    ELSE LET ty == <<"Struct", TryParseTable[node_type]>>
             r == Decode(ty, value)
         IN  IF r.ok THEN NoReport
             ELSE Report(node_type, path, TrackedPath(ty, r.err.path), r.err)

(* try_parse_node: the node is read as the struct its nodeType names in    *)
(* the match; a nodeType the match does not list gives the empty string.   *)
try_parse_node(value, path, node_type) ==
    IF node_type \notin DOMAIN TryParseTable THEN NoReport
    ELSE LET ty == <<"Struct", TryParseTable[node_type]>>
             r == Decode(ty, value)
         IN  IF r.ok THEN NoReport
             ELSE Report(node_type, path, TrackedPath(ty, r.err.path), r.err)

\* Variant: an object is tested before its members are visited.
RECURSIVE find_error_in_value_preorder(_, _)
find_error_in_value_preorder(value, path) ==
    LET n == Len(value.items)
        seg(p) == IF value.t = "obj" THEN Key(value.items[p].k)
                  ELSE Idx(p - 1)
        own == IF HasTag(value) /\ Len(TagOf(value)) = 1
               THEN try_parse_node(value, path, TagOf(value)[1])
               ELSE NoReport
        rs == <<>> \o [p \in 1..n |->
                  find_error_in_value_preorder(value.items[p].v,
                                               Append(path, seg(p)))]
        hit == {p \in 1..n : rs[p].found}
    IN  IF value.t \notin {"obj", "arr"} THEN NoReport
        ELSE IF own.found THEN own
        ELSE IF hit # {}
        THEN rs[CHOOSE p \in hit : \A q \in hit : p <= q]
        ELSE NoReport

(* find_error_in_value: the members of an object first, in the map's       *)
(* order, the first report wins; then the object itself when it has a      *)
(* string nodeType; the elements of an array in order.                     *)
RECURSIVE find_error_in_value(_, _)
find_error_in_value(value, path) ==
    LET n == Len(value.items)
        seg(p) == IF value.t = "obj" THEN Key(value.items[p].k)
                  ELSE Idx(p - 1)
        rs == <<>> \o [p \in 1..n |->
                  find_error_in_value(value.items[p].v, Append(path, seg(p)))]
        hit == {p \in 1..n : rs[p].found}
    IN  IF value.t \notin {"obj", "arr"} THEN NoReport
        ELSE IF hit # {}
        THEN rs[CHOOSE p \in hit : \A q \in hit : p <= q]
        ELSE IF HasTag(value) /\ Len(TagOf(value)) = 1
        THEN try_parse_node(value, path, TagOf(value)[1])
        ELSE NoReport

find_deserialization_error(content, order) ==
    find_error_in_value(ValueOf(content, order), <<>>)

(* fixtures: a file that does not decode as a SourceUnit is handed to      *)
(* find_deserialization_error and the test panics with what it returns.    *)
InitLocalize == InitRoots({<<"Struct", "SourceUnit">>})

DocLocalize ==
    /\ docPc = "decoded"
    /\ ~docResult.ok
    /\ \E order \in MapOrders :
           docReport' = find_deserialization_error(docInput, order)
    /\ docPc' = "reported"
    /\ UNCHANGED <<docRoot, docInput, docJson, docResult, docFirst, docFocus>>
    /\ UNCHANGED OutsideDocument

(* find_deserialization_error applied to a document the decode accepted.   *)
DocProbe ==
    /\ docPc = "decoded"
    /\ docResult.ok
    /\ \E order \in MapOrders :
           docReport' = find_deserialization_error(docInput, order)
    /\ docPc' = "probed"
    /\ UNCHANGED <<docRoot, docInput, docJson, docResult, docFirst, docFocus>>
    /\ UNCHANGED OutsideDocument

NextLocalize == DocDeserialize \/ DocLocalize \/ DocProbe

SpecLocalize == InitLocalize /\ [][NextLocalize]_vars

(* The node a document was built around, and the fault it carries.         *)
RECURSIVE ValueAt(_, _)
ValueAt(j, path) ==
    IF path = <<>> THEN j
    ELSE IF Head(path).idx >= 0
    THEN ValueAt(j.items[Head(path).idx + 1].v, Tail(path))
    ELSE ValueAt(MemberOf(j, Head(path).key), Tail(path))

FocusNode == ValueAt(docInput, docFocus.path)

FocusError == Decode(<<"Struct", docFocus.kind>>, FocusNode).err

IsRequired(kind, key) ==
    \E i \in DOMAIN StructFields(kind) :
        LET f == StructFields(kind)[i]
        IN  f.key = key /\ ~f.dflt /\ Head(f.ty) # "Option"

\* The kinds that carry a nodeType: the variants of the families and the
\* records with an id and a src.
CatalogKinds ==
    UNION {DOMAIN EnumVariants(e) : e \in DispatchFamilies}
    \cup {k \in NodeKinds : IsNode(k)}

(* One required field of the focus node is missing, or holds a scalar of   *)
(* the wrong type or form; the rest of the document is well-formed.        *)
OneFieldFault ==
    /\ docFocus.kind \in CatalogKinds
    /\ docFocus.path # <<>>
    /\ ~Decode(<<"Struct", docFocus.kind>>, FocusNode).ok
    /\ \/ /\ FocusError.msg = "missing field"
          /\ FocusError.path = <<>>
          /\ IsRequired(docFocus.kind, FocusError.what[1])
       \/ /\ Len(FocusError.path) = 1
          /\ IsRequired(docFocus.kind, FocusError.path[1].key)
          /\ MemberOf(FocusNode, FocusError.path[1].key).t
                \notin {"obj", "arr"}
    /\ \A part \in Parts(docRoot, docInput) :
           ~Decode(part[1], part[2]).ok =>
               FocusNode \in {q[2] : q \in Parts(part[1], part[2])}

FaultyField ==
    IF FocusError.path = <<>> THEN FocusError.what[1]
    ELSE FocusError.path[1].key

ReportNames(key) ==
    \/ docReport.field # <<>> /\ docReport.field[1].key = key
    \/ docReport.msg = "missing field" /\ docReport.what = <<key>>

(* C15: when exactly one node of the document is malformed, in one         *)
(* required field, the report gives the path of that node and names the    *)
(* field, and gives no ancestor's path.                                    *)
C15_LocalizationPrecise ==
    (docPc = "reported" /\ OneFieldFault) =>
        /\ docReport.found
        /\ docReport.path = docFocus.path
        /\ ReportNames(FaultyField)

(* The same for the node types the match of try_parse_node lists.          *)
LocalizationPreciseForListedKinds ==
    (docPc = "reported" /\ OneFieldFault
        /\ docFocus.kind \in DOMAIN TryParseTable) =>
        /\ docReport.found
        /\ docReport.path = docFocus.path
        /\ docReport.kind = docFocus.kind
        /\ ReportNames(FaultyField)

(* An ElementaryTypeName without its name, the underlying type of a        *)
(* user-defined value type: the report is for an enclosing node.           *)
ReportedAtAncestor ==
    /\ docPc = "reported" /\ OneFieldFault
    /\ docFocus.kind = "ElementaryTypeName"
    /\ FocusError.msg = "missing field" /\ FocusError.what = <<"name">>
    /\ docReport.found
    /\ Len(docReport.path) < Len(docFocus.path)
    /\ docReport.path = SubSeq(docFocus.path, 1, Len(docReport.path))

----------------------------------------------------------------------------
(* A record read on its own (serde_json::from_str::<T>, and try_parse!).    *)

RecordFields == StructFields(docRoot[2])

AbsentRequired ==
    {i \in DOMAIN RecordFields :
        /\ IsRequired(docRoot[2], RecordFields[i].key)
        /\ MembersFor(RecordFields[i], docInput.items) = {}}

InvalidMembers ==
    {p \in DOMAIN docInput.items :
        \E i \in DOMAIN RecordFields :
            /\ p \in MembersFor(RecordFields[i], docInput.items)
            /\ ~Decode(RecordFields[i].ty, docInput.items[p].v).ok}

RepeatedField ==
    \E i \in DOMAIN RecordFields :
        Cardinality(MembersFor(RecordFields[i], docInput.items)) > 1

(* C16: a record with a required field missing, or with a member that is   *)
(* not valid for its field, does not decode, and the error tells which: a  *)
(* "missing field" error carries the name of a required field that is not  *)
(* there, any other error stands at a member that is invalid (the path     *)
(* serde_path_to_error gives in try_parse!); a record in which every       *)
(* required field is there and every member is valid decodes.              *)
C16_RequiredFields ==
    (docPc = "decoded" /\ docRoot[1] = "Struct") =>
        /\ (AbsentRequired # {} \/ InvalidMembers # {}) => ~docResult.ok
        /\ (~docResult.ok /\ ~RepeatedField) =>
              LET at == TrackedPath(docRoot, docResult.err.path)
              IN  \/ /\ at = <<>> /\ InvalidMembers = {}
                     /\ docResult.err.msg = "missing field"
                     /\ \E i \in AbsentRequired :
                            docResult.err.what = <<RecordFields[i].key>>
                  \/ /\ at # <<>>
                     /\ \E p \in InvalidMembers :
                            at[1] = Key(docInput.items[p].k)
        /\ (AbsentRequired = {} /\ InvalidMembers = {} /\ ~RepeatedField) =>
              docResult.ok

(* A Literal without kind fails with "missing field kind".                 *)
C16_Witness ==
    /\ docPc = "decoded" /\ docRoot = <<"Struct", "Literal">>
    /\ ~HasMember(docInput, "kind")
    /\ AbsentRequired # {} /\ InvalidMembers = {}
    /\ docResult = Fail("missing field", <<"kind">>)

(* An Identifier of ast/identifier.rs without src fails with "missing      *)
(* field src", and one whose src is not a location with an error at src.   *)
IdentifierWithoutSrc ==
    /\ docPc = "decoded" /\ docRoot = <<"Struct", "identifier_Identifier">>
    /\ ~HasMember(docInput, "src")
    /\ docResult = Fail("missing field", <<"src">>)

----------------------------------------------------------------------------
(* The documentation member of a record.                                   *)

HasDocumentation ==
    /\ docRoot[1] = "Struct"
    /\ \E i \in DOMAIN RecordFields :
           /\ RecordFields[i].key = "documentation"
           /\ RecordFields[i].ty = <<"Option", "Documentation">>
    /\ HasMember(docInput, "documentation")

DocumentationJson == MemberOf(docInput, "documentation")

\* Everything else in the record is in order.
OnlyDocumentationVaries ==
    /\ AbsentRequired = {} /\ ~RepeatedField
    /\ \A p \in InvalidMembers : docInput.items[p].k = "documentation"

(* An object with a text and, where it has them, well-formed sections.     *)
TextObject(d) ==
    /\ d.t = "obj" /\ HasMember(d, "text") /\ MemberOf(d, "text").t = "str"
    /\ \A i \in DOMAIN StructFields("StructuredDocumentation") :
           LET f == StructFields("StructuredDocumentation")[i]
           IN  /\ Cardinality(MembersFor(f, d.items)) <= 1
               /\ \A p \in MembersFor(f, d.items) :
                      Decode(f.ty, d.items[p].v).ok

\* The same with the members every node carries.
NodeObject(d) == TextObject(d) /\ HasMember(d, "id") /\ HasMember(d, "src")

DocumentationValue == MemberOf(docResult.v, "documentation")

(* C17 as stated: a string, and any object with a text and params, decode  *)
(* into the documentation field.                                           *)
C17_BothShapes ==
    (docPc = "decoded" /\ HasDocumentation /\ OnlyDocumentationVaries
        /\ (DocumentationJson.t = "str" \/ TextObject(DocumentationJson))) =>
        docResult.ok

(* C17 amended: a string decodes into the field as                         *)
(* Documentation::String, and an object with a text that also carries the  *)
(* id and src of a node decodes into the same field as                     *)
(* Documentation::Structured, with its params kept; an object with a text  *)
(* but without id or src matches no variant and fails the record.          *)
C17_BothNodeShapes ==
    (docPc = "decoded" /\ HasDocumentation /\ OnlyDocumentationVaries) =>
        LET d == DocumentationJson
        IN  /\ d.t = "str" =>
                  /\ docResult.ok
                  /\ DocumentationValue.t = "Some"
                  /\ DocumentationValue.items[1].v.t = "Documentation::String"
                  /\ DocumentationValue.items[1].v.s = d.s
            /\ NodeObject(d) =>
                  /\ docResult.ok
                  /\ DocumentationValue.t = "Some"
                  /\ DocumentationValue.items[1].v.t
                        = "Documentation::Structured"
                  /\ HasMember(d, "params") =>
                         Len(MemberOf(DocumentationValue.items[1].v.items[1].v,
                                      "params").items)
                            = Len(MemberOf(d, "params").items)
            /\ (TextObject(d) /\ ~NodeObject(d)) =>
                  /\ ~docResult.ok
                  /\ docResult.err.msg
                        = "data did not match any variant of untagged enum"

(* A contract whose documentation is a structured node with one params     *)
(* entry, decoded.                                                         *)
C17_Witness ==
    /\ docPc = "decoded" /\ docRoot = <<"Struct", "ContractDefinition">>
    /\ HasDocumentation /\ DocumentationJson = StructuredWithParams
    /\ docResult.ok
    /\ DocumentationValue.items[1].v.t = "Documentation::Structured"

(* A contract whose documentation is the bare string, decoded.             *)
DocumentationAsString ==
    /\ docPc = "decoded" /\ docRoot = <<"Struct", "ContractDefinition">>
    /\ HasDocumentation /\ DocumentationJson.t = "str"
    /\ docResult.ok
    /\ DocumentationValue.items[1].v.t = "Documentation::String"

----------------------------------------------------------------------------
(* Array fields that may be absent.                                        *)

\* The fields C18 lists: the nodes arrays below the document root and the
\* named ones, overloadedDeclarations in both revisions of Identifier.
ListedArrays ==
    {<<k, "nodes">> : k \in {x \in NodeKinds \ {"SourceUnit"} :
                                "nodes" \in FieldKeys(x)}}
    \cup {<<"Identifier", "overloadedDeclarations">>,
          <<"identifier_Identifier", "overloadedDeclarations">>,
          <<"ImportDirective", "symbolAliases">>,
          <<"OverrideSpecifier", "overrides">>,
          <<"InlineAssembly", "flags">>,
          <<"StructuredDocumentation", "params">>,
          <<"StructuredDocumentation", "returns">>,
          <<"StructuredDocumentation", "custom">>,
          <<"SourceUnit", "exportedSymbols">>}

\* The record is read without the member key and is otherwise in order.
OnlyAbsent(key) ==
    /\ ~HasMember(docInput, key)
    /\ InvalidMembers = {} /\ ~RepeatedField
    /\ \A i \in AbsentRequired : RecordFields[i].key = key

AbsentDecodesEmpty(key) ==
    /\ docResult.ok
    /\ MemberOf(docResult.v, key).t \in {"Vec", "Map"}
    /\ MemberOf(docResult.v, key).items = <<>>

(* C18: a record read without one of the listed array members decodes,     *)
(* and the field is the empty array.                                       *)
C18_AbsentArrayIsEmpty ==
    (docPc = "decoded" /\ docRoot[1] = "Struct") =>
        \A la \in ListedArrays :
            (docRoot[2] = la[1] /\ OnlyAbsent(la[2])) =>
                AbsentDecodesEmpty(la[2])

(* The same for the records of ast.rs alone.                               *)
AbsentArrayIsEmptyInAst ==
    (docPc = "decoded" /\ docRoot[1] = "Struct"
        /\ docRoot[2] # "identifier_Identifier") =>
        \A la \in ListedArrays :
            (docRoot[2] = la[1] /\ OnlyAbsent(la[2])) =>
                AbsentDecodesEmpty(la[2])

(* The Identifier of ast/identifier.rs read without overloadedDeclarations.*)
IdentifierWithoutOverloads ==
    /\ docPc = "decoded" /\ docRoot = <<"Struct", "identifier_Identifier">>
    /\ OnlyAbsent("overloadedDeclarations")
    /\ docResult = Fail("missing field", <<"overloadedDeclarations">>)

----------------------------------------------------------------------------
(* Optional members that are left out of the output when unset.            *)

\* The fields C19 names, in both revisions.
OmitFields ==
    {<<"TypeDescriptions", "typeIdentifier">>,
     <<"TypeDescriptions", "typeString">>,
     <<"ElementaryTypeName", "stateMutability">>,
     <<"types_ElementaryTypeName", "stateMutability">>}

\* The fields among them that carry skip_serializing_if.
MarkedFields ==
    {of \in OmitFields :
        \E i \in DOMAIN StructFields(of[1]) :
            StructFields(of[1])[i].key = of[2] /\ StructFields(of[1])[i].skip}

OmittedWhenUnset(fields) ==
    (docRoot[1] = "Struct" /\ docPc \in {"decoded", "encoded"}) =>
        \A of \in fields : docRoot[2] = of[1] =>
            LET key == of[2]
                unset == \/ ~HasMember(docInput, key)
                         \/ MemberOf(docInput, key).t = "null"
                set == HasMember(docInput, key)
                          /\ MemberOf(docInput, key).t = "str"
                rest == /\ AbsentRequired = {} /\ ~RepeatedField
                        /\ \A p \in InvalidMembers : docInput.items[p].k = key
            IN  /\ (rest /\ (unset \/ set)) => docFirst.ok
                /\ docFirst.ok =>
                      LET v == MemberOf(docFirst.v, key)
                      IN  /\ unset => v = None
                          /\ set => v = Some(VString(MemberOf(docInput, key).s))
                          /\ (docPc = "encoded" /\ v = None) =>
                                ~HasMember(docJson, key)
                          /\ (docPc = "encoded" /\ v # None) =>
                                /\ HasMember(docJson, key)
                                /\ MemberOf(docJson, key) = JStr(v.items[1].v.s)

(* C19: the type descriptions and the state mutability of an elementary    *)
(* type name decode from a member that is present, absent or null, and     *)
(* are written back as the member with its value when set and as no        *)
(* member at all when unset; type descriptions with both fields unset      *)
(* are written as the empty object.                                        *)
C19_OmittedWhenUnset ==
    /\ OmittedWhenUnset(OmitFields)
    /\ (/\ docPc = "encoded"
        /\ docRoot = <<"Struct", "TypeDescriptions">>
        /\ \A p \in DOMAIN docFirst.v.items : docFirst.v.items[p].v = None) =>
           docJson = JObj(<<>>)

(* The same for the fields that carry skip_serializing_if.                 *)
OmittedWhenUnsetWhereMarked ==
    /\ OmittedWhenUnset(MarkedFields)
    /\ (/\ docPc = "encoded"
        /\ docRoot = <<"Struct", "TypeDescriptions">>
        /\ \A p \in DOMAIN docFirst.v.items : docFirst.v.items[p].v = None) =>
           docJson = JObj(<<>>)

(* The ElementaryTypeName of ast.rs with no stateMutability, encoded: the  *)
(* member is written, as null.                                             *)
StateMutabilityWrittenAsNull ==
    /\ docPc = "encoded" /\ docRoot = <<"Struct", "ElementaryTypeName">>
    /\ ~HasMember(docInput, "stateMutability")
    /\ HasMember(docJson, "stateMutability")
    /\ MemberOf(docJson, "stateMutability") = JNull

(* The ElementaryTypeName of ast/types.rs with no stateMutability,         *)
(* encoded: no such member, and the type descriptions are {}.              *)
StateMutabilityLeftOut ==
    /\ docPc = "encoded" /\ docRoot = <<"Struct", "types_ElementaryTypeName">>
    /\ ~HasMember(docInput, "stateMutability")
    /\ ~HasMember(docJson, "stateMutability")
    /\ MemberOf(docJson, "typeDescriptions") = JObj(<<>>)

----------------------------------------------------------------------------
(* The StandardJsonInput builder: new, then any calls.                     *)

OutsideInput == <<locVars, elVars, docVars>>

(* Language: the variant name, but for the two renamed ones.               *)
SerializeLanguage(language) ==
    CASE language = "SolidityAst" -> "SolidityAST"
      [] language = "EvmAssembly" -> "EVMAssembly"
      [] OTHER -> language

(* SourceContent, untagged: the fields of the variant and nothing else.    *)
SerializeSourceContent(content) ==
    IF content.kind = "Content"
    THEN <<Member("content", JStr(content.content))>>
    ELSE <<Member("urls",
                  JArr(<<>> \o [i \in DOMAIN content.urls |->
                                    JStr(content.urls[i])]))>>

\* Variant: keccak256 is written as null when there is no hash.
SerializeSource_null_hash(source, order) ==
    LET hash == <<Member("keccak256",
                         IF source.keccak256.some
                         THEN JStr(source.keccak256.s) ELSE JNull)>>
        flat == SerializeSourceContent(source.content)
    IN  JObj(IF order = "BTreeMap" /\ source.content.kind = "Content"
             THEN flat \o hash ELSE hash \o flat)

(* Source: keccak256 unless it is None, then the flattened content; a      *)
(* BTreeMap-backed serde_json::Map holds the members in key order.         *)
SerializeSource(source, order) ==
    LET hash == IF source.keccak256.some
                THEN <<Member("keccak256", JStr(source.keccak256.s))>>
                ELSE <<>>
        flat == SerializeSourceContent(source.content)
    IN  JObj(IF order = "BTreeMap" /\ source.content.kind = "Content"
             THEN flat \o hash ELSE hash \o flat)

(* ModelCheckerSettings and Settings: every field is left out when None.   *)
SerializeModelChecker(settings) ==
    JObj(IF settings.engine = "" THEN <<>>
         ELSE <<Member("engine", JStr(<<settings.engine>>))>>)

SerializeSettings(settings) ==
    JObj(IF settings.some
         THEN <<Member("modelChecker", SerializeModelChecker(settings))>>
         ELSE <<>>)

(* The byte order of the characters of the sample names.                   *)
NameChars == <<".", "/", "A", "B">>

CharRank(c) == CHOOSE i \in DOMAIN NameChars : NameChars[i] = c

(* Ord for str: bytewise, a proper prefix first.                           *)
RECURSIVE NameLess(_, _)
NameLess(a, b) ==
    IF b = <<>> THEN FALSE
    ELSE IF a = <<>> THEN TRUE
    ELSE IF a[1] # b[1] THEN CharRank(a[1]) < CharRank(b[1])
    ELSE NameLess(Tail(a), Tail(b))

(* The orders in which the entries of the map reach the JSON object.       *)
iter(rev, order, map) ==
    LET all == {q \in [1..Cardinality(map) -> map] :
                   \A i, j \in DOMAIN q : i # j => q[i] # q[j]}
        sorted == {q \in all : \A i, j \in DOMAIN q :
                                  i < j => NameLess(q[i].name, q[j].name)}
    IN  IF rev = "input.rs" \/ order = "BTreeMap" THEN sorted ELSE all

SerializeSources(entries, order) ==
    <<>> \o [i \in DOMAIN entries |->
        Member(entries[i].name, SerializeSource(entries[i].source, order))]

(* StandardJsonInput::new()                                                *)
InitInput ==
    /\ LocIdle /\ ElIdle /\ DocIdle
    /\ inRev \in InputRevisions
    /\ inLanguage = "Solidity"
    /\ inSources = {}
    /\ inModelChecker = NoSettings
    /\ inLast = [n \in Names |-> NoSource]
    /\ inCalls = 0
    /\ inJson = NoJson

add_source ==
    /\ inCalls < MaxCalls
    /\ \E name \in Names, content \in ContentSamples :
           LET source == Source(NoHash, Content(content))
           IN  /\ inSources' = insert(inRev, inSources, name, source)
               /\ inLast' = [inLast EXCEPT ![name] = source]
    /\ inCalls' = inCalls + 1
    /\ UNCHANGED <<inRev, inLanguage, inModelChecker, inJson>>
    /\ UNCHANGED OutsideInput

add_source_urls ==
    /\ inCalls < MaxCalls
    /\ \E name \in Names, urls \in UrlSamples, hash \in HashSamples :
           LET source == Source(hash, Urls(urls))
           IN  /\ inSources' = insert(inRev, inSources, name, source)
               /\ inLast' = [inLast EXCEPT ![name] = source]
    /\ inCalls' = inCalls + 1
    /\ UNCHANGED <<inRev, inLanguage, inModelChecker, inJson>>
    /\ UNCHANGED OutsideInput

model_checker ==
    /\ inCalls < MaxCalls
    /\ \E settings \in SettingsSamples : inModelChecker' = settings
    /\ inCalls' = inCalls + 1
    /\ UNCHANGED <<inRev, inLanguage, inSources, inLast, inJson>>
    /\ UNCHANGED OutsideInput

(* serde_json::to_value(&input): the map of input.rs is written in key     *)
(* order; the HashMap of standard_json_input.rs is written in an order of  *)
(* its hasher's choosing, which a BTreeMap-backed serde_json::Map sorts    *)
(* and an IndexMap-backed one keeps.                                       *)
to_value ==
    /\ \E order \in MapOrders :
           \E entries \in iter(inRev, order, inSources) :
               inJson' = JInput(SerializeLanguage(inLanguage),
                                SerializeSources(entries, order),
                                SerializeSettings(inModelChecker))
    /\ UNCHANGED <<inRev, inLanguage, inSources, inModelChecker, inLast,
                   inCalls>>
    /\ UNCHANGED OutsideInput

NextInput == add_source \/ add_source_urls \/ model_checker \/ to_value

SpecInput == InitInput /\ [][NextInput]_vars

EntriesNamed(n) == {e \in inSources : e.name = n}

OneEntryPerName ==
    \A n \in Names :
        /\ inLast[n] = NoSource => EntriesNamed(n) = {}
        /\ inLast[n] # NoSource => EntriesNamed(n) = {Entry(n, inLast[n])}

(* C20: after any calls of add_source and add_source_urls the map holds,   *)
(* for every name a call used, exactly one entry under that name, with the *)
(* source (hash included) of the last call under it, and no entry under    *)
(* any other name.                                                         *)
C20_OneEntryPerName == inRev \in InputRevisions => OneEntryPerName

(* The same for the String-keyed map of input.rs.                          *)
OneEntryPerNameInInputRs == inRev = "input.rs" => OneEntryPerName

(* standard_json_input.rs: after add_source("A", ..) and a call for "A/"   *)
(* there is one entry, under "A", with the source of the second call.      *)
NamesMergedByComponents ==
    /\ inRev = "standard_json_input.rs"
    /\ inLast[<<"A">>] # NoSource
    /\ inLast[<<"A", "/">>] # NoSource
    /\ inLast[<<"A">>] # inLast[<<"A", "/">>]
    /\ inSources = {Entry(<<"A">>, inLast[<<"A", "/">>])}

(* input.rs: a later call under a name replaced the earlier entry, hash    *)
(* included.                                                               *)
EntryReplaced ==
    /\ inRev = "input.rs" /\ inCalls = 2
    /\ inSources = {Entry(<<"A">>, Source(NoHash, Content(<<"x">>)))}

(* The members with a given key of a serialized object.                    *)
MembersKeyed(j, k) == {p \in DOMAIN j.items : j.items[p].k = k}

(* A serialized source object against the Source it was written from.      *)
SourceWritten(j, source) ==
    /\ j.t = "obj"
    /\ \A p \in DOMAIN j.items : j.items[p].k \in {"keccak256", "content", "urls"}
    /\ \A k \in {"keccak256", "content", "urls"} :
           Cardinality(MembersKeyed(j, k)) <= 1
    /\ HasMember(j, "content") # HasMember(j, "urls")
    /\ HasMember(j, "content") <=> source.content.kind = "Content"
    /\ HasMember(j, "urls") <=> source.content.kind = "Urls"
    /\ HasMember(j, "content") =>
           MemberOf(j, "content") = JStr(source.content.content)
    /\ HasMember(j, "urls") =>
           /\ MemberOf(j, "urls").t = "arr"
           /\ Children(MemberOf(j, "urls")) =
                  [i \in DOMAIN source.content.urls |->
                      JStr(source.content.urls[i])]
    /\ HasMember(j, "keccak256") <=> source.keccak256.some
    /\ HasMember(j, "keccak256") =>
           MemberOf(j, "keccak256") = JStr(source.keccak256.s)

SourcesWritten ==
    /\ Len(inJson.sources) = Cardinality(inSources)
    /\ \A e \in inSources :
           \E p \in DOMAIN inJson.sources :
               /\ inJson.sources[p].k = e.name
               /\ SourceWritten(inJson.sources[p].v, e.source)

(* C21: every serialization of an input built with new, add_source,        *)
(* add_source_urls and model_checker has one object per source entry, and  *)
(* that object carries exactly one of "content" and "urls" (content for an *)
(* entry of add_source, urls for one of add_source_urls) and carries       *)
(* "keccak256" if and only if the entry has a hash.                        *)
C21_SourceContentExclusivity == [][to_value => SourcesWritten']_vars

(* A serialization with a content source and a urls source with its hash.  *)
C21_Witness ==
    /\ Len(inJson.sources) = 2
    /\ \E p, q \in DOMAIN inJson.sources :
           /\ HasMember(inJson.sources[p].v, "content")
           /\ ~HasMember(inJson.sources[p].v, "keccak256")
           /\ HasMember(inJson.sources[q].v, "urls")
           /\ HasMember(inJson.sources[q].v, "keccak256")

(* What new() yields, and its serialization.                               *)
NewInput ==
    inCalls = 0 =>
        /\ inLanguage = "Solidity" /\ inSources = {}
        /\ inModelChecker = NoSettings
        /\ inJson # NoJson => inJson = JInput("Solidity", <<>>, JObj(<<>>))

(* A step of add_source or add_source_urls under some name: the entries    *)
(* under every other name, the language and the settings stay.             *)
SourceFrame ==
    \E name \in Names :
        /\ inLast'[name] # NoSource
        /\ inLast' = [inLast EXCEPT ![name] = inLast'[name]]
        /\ \A n \in Names \ {name} : EntriesNamed(n)' = EntriesNamed(n)
        /\ inLanguage' = inLanguage
        /\ inModelChecker' = inModelChecker

(* A step of model_checker: settings.model_checker is set, the language    *)
(* and the sources stay.                                                   *)
ModelCheckerFrame ==
    /\ inModelChecker'.some
    /\ inLanguage' = inLanguage
    /\ inSources' = inSources

BuilderFrames ==
    /\ add_source \/ add_source_urls => SourceFrame
    /\ model_checker => ModelCheckerFrame

(* C30: add_source and add_source_urls leave the language, the settings    *)
(* and every source entry under a different name unchanged; model_checker  *)
(* sets settings.modelChecker and leaves the language and the sources      *)
(* unchanged; new() yields language Solidity, no sources and settings that *)
(* serialize as an empty object.                                           *)
C30_BuilderFrames == []NewInput /\ [][BuilderFrames]_vars

(* The same for the String-keyed map of input.rs.                          *)
BuilderFramesInInputRs ==
    []NewInput /\ [][inRev = "input.rs" => BuilderFrames]_vars

(* standard_json_input.rs: the entry under "A" holds what a call under     *)
(* another spelling of the path wrote; the last call under "A" wrote "x".  *)
EntryChangedUnderOtherName ==
    /\ inRev = "standard_json_input.rs"
    /\ inLast[<<"A">>] = Source(NoHash, Content(<<"x">>))
    /\ inSources = {Entry(<<"A">>, Source(NoHash, Content(<<"y">>)))}

----------------------------------------------------------------------------
(* ContractDefinition.abstract and fullyImplemented.                       *)
BoolOrIntFields == {"abstract", "fullyImplemented"}

IsContractDefinition ==
    docPc = "decoded" /\ docRoot = <<"Struct", "ContractDefinition">>

BoolOrInt(j) == j.t = "bool" \/ (j.t = "num" /\ j.n \in {0, 1})

Truth(j) == IF j.t = "bool" THEN j.b ELSE j.n = 1

\* The record read is the plain one but for the value of the member key.
OnlyValueVaries(key) ==
    /\ HasMember(docInput, key)
    /\ docInput = JObj(Put(Base(docRoot).items, key, MemberOf(docInput, key)))

(* C29: in a ContractDefinition, abstract and fullyImplemented read false  *)
(* from false and 0 and true from true and 1; any other value of either    *)
(* member (another integer, negative or positive, a string, null) fails    *)
(* the whole ContractDefinition.                                           *)
C29_BoolOrInt ==
    IsContractDefinition =>
        \A k \in BoolOrIntFields :
            /\ docResult.ok =>
                   /\ HasMember(docInput, k)
                   /\ BoolOrInt(MemberOf(docInput, k))
                   /\ MemberOf(docResult.v, k) = VBool(Truth(MemberOf(docInput, k)))
            /\ OnlyValueVaries(k) =>
                   (docResult.ok <=> BoolOrInt(MemberOf(docInput, k)))

(* A ContractDefinition with abstract 1, read as true.                     *)
C29_Witness ==
    /\ IsContractDefinition /\ OnlyValueVaries("abstract")
    /\ MemberOf(docInput, "abstract") = JNum(1)
    /\ docResult.ok /\ MemberOf(docResult.v, "abstract") = VBool(TRUE)

(* A ContractDefinition with fullyImplemented -1, which fails.             *)
NegativeIntegerFails ==
    /\ IsContractDefinition /\ OnlyValueVaries("fullyImplemented")
    /\ MemberOf(docInput, "fullyImplemented") = JNum(-1)
    /\ ~docResult.ok

(* A ContractDefinition with abstract "true", which fails.                 *)
StringFails ==
    /\ IsContractDefinition /\ OnlyValueVaries("abstract")
    /\ MemberOf(docInput, "abstract") = JStr(<<"true">>)
    /\ ~docResult.ok

----------------------------------------------------------------------------
(* FunctionDefinition: visibility against functionSelector, implemented    *)
(* against body.                                                           *)
IsFunctionDefinition ==
    docPc = "decoded" /\ docRoot = <<"Struct", "FunctionDefinition">>

ConditionalKeys == {"visibility", "functionSelector", "implemented", "body"}

RECURSIVE Without(_, _)
Without(ms, keys) ==
    IF ms = <<>> THEN <<>>
    ELSE (IF Head(ms).k \in keys THEN <<>> ELSE <<Head(ms)>>)
            \o Without(Tail(ms), keys)

\* The record read is the plain one but for the four members, each of
\* which is absent or well-formed.
OnlyConditionalsVary ==
    /\ docInput.t = "obj"
    /\ Without(docInput.items, ConditionalKeys) =
           Without(Base(docRoot).items, ConditionalKeys)
    /\ \A k \in ConditionalKeys :
           Cardinality({p \in DOMAIN docInput.items :
                           docInput.items[p].k = k}) <= 1
    /\ HasMember(docInput, "visibility")
    /\ MemberOf(docInput, "visibility") \in
           {JStr(<<x>>) : x \in {"external", "public", "internal", "private"}}
    /\ HasMember(docInput, "implemented")
    /\ MemberOf(docInput, "implemented").t = "bool"
    /\ HasMember(docInput, "functionSelector") =>
           MemberOf(docInput, "functionSelector").t = "str"
    /\ HasMember(docInput, "body") =>
           MemberOf(docInput, "body") = Base(<<"Struct", "Block">>)

(* C25: a FunctionDefinition decodes for every visibility with and without *)
(* a functionSelector and for implemented true and false with and without  *)
(* a body; the fields hold what was read, None for an absent member.       *)
C25_ConditionalPresenceNotEnforced ==
    (IsFunctionDefinition /\ OnlyConditionalsVary) =>
        /\ docResult.ok
        /\ UnitNames("Visibility")[MemberOf(docResult.v, "visibility").s[1]] =
               MemberOf(docInput, "visibility").s[1]
        /\ MemberOf(docResult.v, "implemented") =
               VBool(MemberOf(docInput, "implemented").b)
        /\ MemberOf(docResult.v, "functionSelector") = None
               <=> ~HasMember(docInput, "functionSelector")
        /\ MemberOf(docResult.v, "body") = None <=> ~HasMember(docInput, "body")

(* A private function with a functionSelector, not implemented and with a  *)
(* body, decoded.                                                          *)
C25_Witness ==
    /\ IsFunctionDefinition /\ OnlyConditionalsVary /\ docResult.ok
    /\ MemberOf(docInput, "visibility") = JStr(<<"private">>)
    /\ HasMember(docInput, "functionSelector")
    /\ MemberOf(docInput, "implemented") = JBool(FALSE)
    /\ HasMember(docInput, "body")

(* An external, implemented function with neither selector nor body,       *)
(* decoded.                                                                *)
ExternalWithoutSelector ==
    /\ IsFunctionDefinition /\ OnlyConditionalsVary /\ docResult.ok
    /\ MemberOf(docInput, "visibility") = JStr(<<"external">>)
    /\ ~HasMember(docInput, "functionSelector")
    /\ MemberOf(docInput, "implemented") = JBool(TRUE)
    /\ ~HasMember(docInput, "body")

----------------------------------------------------------------------------
(* The interface description (abi.rs): an array of items.                  *)

AbiRoot == <<"Vec", "AbiItem">>

AbiParam(type) ==
    JObj(<<Member("name", JStr(<<"a">>)), Member("type", JStr(<<type>>)),
           Member("internalType", JStr(<<type>>))>>)

AbiTuple(type) ==
    JObj(<<Member("name", JStr(<<"t">>)), Member("type", JStr(<<"tuple">>)),
           Member("components", JArr(<<AbiParam(type)>>))>>)

AbiFunction(inputs) ==
    JObj(<<Member("type", JStr(<<"function">>)), Member("name", JStr(<<"f">>)),
           Member("inputs", JArr(inputs)), Member("outputs", JArr(<<>>)),
           Member("stateMutability", JStr(<<"view">>))>>)

(* Items of each of the six kinds with the fields of the kind.             *)
AbiGoodItems ==
    {AbiFunction(<<>>),
     AbiFunction(<<AbiParam("uint256")>>),
     AbiFunction(<<AbiParam("function")>>),
     AbiFunction(<<AbiTuple("event")>>),
     JObj(<<Member("type", JStr(<<"constructor">>)),
            Member("inputs", JArr(<<AbiParam("address")>>)),
            Member("stateMutability", JStr(<<"nonpayable">>))>>),
     JObj(<<Member("type", JStr(<<"receive">>)),
            Member("stateMutability", JStr(<<"payable">>))>>),
     JObj(<<Member("stateMutability", JStr(<<"payable">>)),
            Member("type", JStr(<<"fallback">>))>>),
     JObj(<<Member("type", JStr(<<"event">>)), Member("name", JStr(<<"E">>)),
            Member("inputs",
                   JArr(<<JObj(<<Member("name", JStr(<<"a">>)),
                                 Member("type", JStr(<<"uint256">>)),
                                 Member("indexed", JBool(TRUE))>>)>>)),
            Member("anonymous", JBool(FALSE))>>),
     JObj(<<Member("type", JStr(<<"error">>)), Member("name", JStr(<<"X">>)),
            Member("inputs", JArr(<<>>))>>)}

(* Items that are no object of one of the six kinds with its fields: an    *)
(* unknown type, no type, a type that is no string, a function without     *)
(* outputs, a function with a parameter without name, a function whose     *)
(* stateMutability is no variant; and a receive item written as an array.  *)
AbiOtherItems ==
    {JObj(<<Member("type", JStr(<<"modifier">>)), Member("name", JStr(<<"m">>))>>),
     JObj(<<Member("name", JStr(<<"f">>)), Member("inputs", JArr(<<>>)),
            Member("outputs", JArr(<<>>)),
            Member("stateMutability", JStr(<<"view">>))>>),
     JObj(<<Member("type", JNum(1)),
            Member("stateMutability", JStr(<<"payable">>))>>),
     JObj(Drop(AbiFunction(<<>>).items, "outputs")),
     AbiFunction(<<JObj(<<Member("type", JStr(<<"uint256">>))>>)>>),
     JObj(Put(AbiFunction(<<AbiParam("function")>>).items, "stateMutability",
              JStr(<<"constant">>))),
     JArr(<<JStr(<<"receive">>), JStr(<<"payable">>)>>)}

MaxItems == 2

AbiDocs ==
    {JArr(items) :
        items \in UNION {[1..k -> AbiGoodItems \cup AbiOtherItems] :
                            k \in 0..MaxItems}}

(* try_parse_abi_item: the object is read as the record its type names in  *)
(* the match; any other type gives the empty string.                       *)
try_parse_abi_item(value, path, item_type) ==
    IF item_type \notin DOMAIN AbiItemVariants THEN NoReport
    ELSE LET ty == <<"Struct", AbiItemVariants[item_type]>>
             r == Decode(ty, value)
         IN  IF r.ok THEN NoReport
             ELSE Report(item_type, path, TrackedPath(ty, r.err.path), r.err)

(* find_error_in_value of abi.rs: the members of an object first, the      *)
(* first report wins; then the object itself when it has a string type;    *)
(* the elements of an array in order.                                      *)
RECURSIVE abi_find_error_in_value(_, _)
abi_find_error_in_value(value, path) ==
    LET n == Len(value.items)
        seg(p) == IF value.t = "obj" THEN Key(value.items[p].k)
                  ELSE Idx(p - 1)
        rs == <<>> \o [p \in 1..n |->
                  abi_find_error_in_value(value.items[p].v,
                                          Append(path, seg(p)))]
        hit == {p \in 1..n : rs[p].found}
        types == {p \in 1..n : /\ value.t = "obj"
                               /\ value.items[p].k = AbiTagKey
                               /\ value.items[p].v.t = "str"}
    IN  IF value.t \notin {"obj", "arr"} THEN NoReport
        ELSE IF hit # {}
        THEN rs[CHOOSE p \in hit : \A q \in hit : p <= q]
        ELSE IF types # {}
        THEN try_parse_abi_item(value, path,
                                value.items[CHOOSE p \in types : TRUE].v.s[1])
        ELSE NoReport

abi_find_deserialization_error(content, order) ==
    abi_find_error_in_value(ValueOf(content, order), <<>>)

(* fixtures of abi.rs: the file is read as an Abi; one that does not       *)
(* decode is handed to find_deserialization_error.                         *)
InitAbi ==
    /\ LocIdle /\ ElIdle /\ InIdle
    /\ docRoot = AbiRoot
    /\ docInput \in AbiDocs
    /\ docJson = docInput
    /\ docResult = NoResult /\ docFirst = NoResult
    /\ docFocus = NoFocus /\ docReport = NoReport
    /\ docPc = "text"

AbiLocalize ==
    /\ docPc = "decoded"
    /\ ~docResult.ok
    /\ \E order \in MapOrders :
           docReport' = abi_find_deserialization_error(docInput, order)
    /\ docPc' = "reported"
    /\ UNCHANGED <<docRoot, docInput, docJson, docResult, docFirst, docFocus>>
    /\ UNCHANGED OutsideDocument

NextAbi == DocDeserialize \/ AbiLocalize

SpecAbi == InitAbi /\ [][NextAbi]_vars

----------------------------------------------------------------------------
IsAbi == docPc = "decoded" /\ docRoot = AbiRoot

AbiItems == Children(docInput)

\* The string value of the item's type member, "" when it has none.
TypeOf(item) ==
    IF item.t = "obj" /\ HasMember(item, AbiTagKey)
          /\ MemberOf(item, AbiTagKey).t = "str"
    THEN MemberOf(item, AbiTagKey).s[1] ELSE ""

\* Item i has one of the six types and was read as the variant of it.
Dispatched(i) ==
    /\ TypeOf(AbiItems[i]) \in DOMAIN AbiItemVariants
    /\ Children(docResult.v)[i].t = AbiItemVariants[TypeOf(AbiItems[i])]

\* Items of the six kinds with their fields decode, and an array decodes
\* only if each of its items does.
GoodItemsDecode ==
    /\ (\A i \in DOMAIN AbiItems : AbiItems[i] \in AbiGoodItems) =>
           docResult.ok
    /\ docResult.ok =>
           \A i \in DOMAIN AbiItems : Decode(<<"AbiItem">>, AbiItems[i]).ok

(* C22 as stated: every item of an array that decodes has a type member    *)
(* with one of the six values and is read as the variant of that type;     *)
(* items of the six kinds with their fields decode; one failing item       *)
(* fails the array.                                                        *)
C22_DispatchOnType ==
    IsAbi =>
        /\ docResult.ok => \A i \in DOMAIN AbiItems : Dispatched(i)
        /\ GoodItemsDecode

(* C22 for items that are JSON objects: every object item of an array that *)
(* decodes has a type member with one of the six values and is read as the *)
(* variant of that type; an item that is an array is read as the variant   *)
(* its first element names; items of the six kinds with their fields       *)
(* decode; one failing item fails the array.                               *)
C22_ObjectItemsDispatchOnType ==
    IsAbi =>
        /\ docResult.ok =>
               \A i \in DOMAIN AbiItems :
                   /\ AbiItems[i].t \in {"obj", "arr"}
                   /\ AbiItems[i].t = "obj" => Dispatched(i)
                   /\ AbiItems[i].t = "arr" =>
                          /\ Children(AbiItems[i])[1].t = "str"
                          /\ Children(AbiItems[i])[1].s[1] \in
                                 DOMAIN AbiItemVariants
                          /\ Children(docResult.v)[i].t =
                                 AbiItemVariants[Children(AbiItems[i])[1].s[1]]
        /\ GoodItemsDecode

(* An array of an event and a fallback item, decoded as those variants.    *)
C22_Witness ==
    /\ IsAbi /\ docResult.ok /\ Len(AbiItems) = 2
    /\ TypeOf(AbiItems[1]) = "event" /\ TypeOf(AbiItems[2]) = "fallback"
    /\ Dispatched(1) /\ Dispatched(2)

(* An array whose second item has the type "modifier": unknown variant.    *)
UnknownItemTypeFails ==
    /\ IsAbi /\ ~docResult.ok /\ Len(AbiItems) = 2
    /\ AbiItems[1] \in AbiGoodItems
    /\ TypeOf(AbiItems[2]) = "modifier"
    /\ docResult.err.msg = "unknown variant"
    /\ docResult.err.path = <<Idx(1)>>

(* An array whose only item has no type member: missing field type.        *)
ItemWithoutTypeFails ==
    /\ IsAbi /\ ~docResult.ok /\ Len(AbiItems) = 1
    /\ AbiItems[1].t = "obj" /\ ~HasMember(AbiItems[1], AbiTagKey)
    /\ docResult.err.msg = "missing field"

(* The item ["receive", "payable"], read as a receive item.                *)
ArrayItemDecodes ==
    /\ IsAbi /\ docResult.ok /\ Len(AbiItems) = 1
    /\ AbiItems[1] = JArr(<<JStr(<<"receive">>), JStr(<<"payable">>)>>)
    /\ Children(docResult.v)[1].t = "abi_Receive"

----------------------------------------------------------------------------
AbiReported == docPc = "reported" /\ docRoot = AbiRoot

\* The report stands at an element of the item array, an object with one
\* of the six types that does not decode as the record of its type.
ReportAtFailingItem ==
    /\ Len(docReport.path) = 1
    /\ docReport.path[1].idx \in 0..(Len(AbiItems) - 1)
    /\ LET item == AbiItems[docReport.path[1].idx + 1]
       IN  /\ TypeOf(item) \in DOMAIN AbiItemVariants
           /\ docReport.kind = TypeOf(item)
           /\ ~Decode(<<"Struct", AbiItemVariants[TypeOf(item)]>>, item).ok

(* C27: a report of the ABI walk stands at an element of the top-level     *)
(* item array whose decode as its declared kind fails; a well-formed       *)
(* parameter or tuple component produces no report, whatever its type.     *)
C27_ReportsOnlyItems ==
    (AbiReported /\ docReport.found) => ReportAtFailingItem

\* The types parameters and components of the document carry.
RECURSIVE ParamTypes(_, _)
ParamTypes(j, depth) ==
    UNION {ParamTypes(j.items[p].v, depth + 1) : p \in DOMAIN j.items}
       \cup IF depth > 1 /\ TypeOf(j) # "" THEN {TypeOf(j)} ELSE {}

(* The same for documents in which no parameter or component has one of    *)
(* the six item kinds as its type.                                         *)
ReportsOnlyItemsUnlessKindNamed ==
    (AbiReported /\ docReport.found
        /\ ParamTypes(docInput, 0) \cap DOMAIN AbiItemVariants = {}) =>
        ReportAtFailingItem

(* The array of one function with a parameter of type "function" and one   *)
(* item of the unknown type "modifier": the walk reports the parameter of  *)
(* the first item, missing field inputs.                                   *)
ParameterReported ==
    /\ AbiReported /\ docReport.found
    /\ AbiItems = <<AbiFunction(<<AbiParam("function")>>),
                    JObj(<<Member("type", JStr(<<"modifier">>)),
                           Member("name", JStr(<<"m">>))>>)>>
    /\ docResult.err.path = <<Idx(1)>>
    /\ docReport.path = <<Idx(0), Key("inputs"), Idx(0)>>
    /\ docReport.kind = "function"
    /\ docReport.msg = "missing field" /\ docReport.what = <<"inputs">>

----------------------------------------------------------------------------
(* The walk against the primary decode.                                    *)
Walked == docRoot = <<"Struct", "SourceUnit">> /\ docPc \in {"reported", "probed"}

(* C26: if the walk returns a report, the decode of the same document as a *)
(* SourceUnit fails.                                                       *)
C26_LocalizationSound == (Walked /\ docReport.found) => ~docResult.ok

\* The places of the document the decoder reads as a record or a tagged
\* node.
TypedNodes == {part[2] : part \in Parts(docRoot, docInput)}

\* The objects of a value, itself included.
RECURSIVE Objects(_)
Objects(j) ==
    UNION {Objects(j.items[p].v) : p \in DOMAIN j.items}
       \cup IF j.t = "obj" THEN {j} ELSE {}

(* The same for documents in which every object with a string nodeType     *)
(* stands where the decoder reads a node.                                  *)
SoundWithoutStrayNodes ==
    (Walked /\ docReport.found
        /\ \A o \in Objects(docInput) : HasTag(o) => o \in TypedNodes) =>
        ~docResult.ok

(* A SourceUnit that decodes, with a member "extra" holding an object      *)
(* whose nodeType is Literal and nothing else: the walk reports it.        *)
StrayNodeReported ==
    /\ Walked /\ docResult.ok
    /\ docReport.found
    /\ docReport.path = <<Key("extra")>>
    /\ docReport.kind = "Literal"
    /\ docReport.msg = "missing field"

----------------------------------------------------------------------------
RootTagged == HasTag(docInput) /\ TagOf(docInput) = <<"SourceUnit">>

(* C28: if the root carries nodeType "SourceUnit" and the decode of the    *)
(* document fails, the walk returns a report.                              *)
C28_LocalizationComplete ==
    (Walked /\ RootTagged /\ ~docResult.ok) => docReport.found

\* An object of the document has two members with one key.
RepeatedKey ==
    \E o \in Objects(docInput) :
        \E p, q \in DOMAIN o.items : p # q /\ o.items[p].k = o.items[q].k

(* The same for documents without a repeated key.                          *)
CompleteWithoutRepeatedKeys ==
    (Walked /\ RootTagged /\ ~docResult.ok /\ ~RepeatedKey) =>
        docReport.found

(* A SourceUnit with its id member twice: the decode fails with duplicate  *)
(* field, the walk returns nothing.                                        *)
RepeatedKeyUnreported ==
    /\ Walked /\ RootTagged
    /\ ~docResult.ok /\ docResult.err.msg = "duplicate field"
    /\ docResult.err.path = <<>>
    /\ ~docReport.found

----------------------------------------------------------------------------
(* The order of the walk.                                                  *)

Place(node, path) == [node |-> node, path |-> path]

\* The objects of a value in post-order: for an object its members' in the
\* order of the map, then the object; for an array its elements' in index
\* order.
RECURSIVE PostOrder(_, _)
RECURSIVE PostOrderFrom(_, _, _)
PostOrderFrom(value, path, p) ==
    IF p > Len(value.items) THEN <<>>
    ELSE PostOrder(value.items[p].v,
                   Append(path, IF value.t = "obj" THEN Key(value.items[p].k)
                                ELSE Idx(p - 1)))
            \o PostOrderFrom(value, path, p + 1)

PostOrder(value, path) ==
    IF value.t = "obj"
    THEN PostOrderFrom(value, path, 1) \o <<Place(value, path)>>
    ELSE IF value.t = "arr" THEN PostOrderFrom(value, path, 1)
    ELSE <<>>

\* The isolated test of one object: its decode as the record its string
\* nodeType names in the table of try_parse_node.
Isolated(place) ==
    IF HasTag(place.node) /\ Len(TagOf(place.node)) = 1
    THEN try_parse_node(place.node, place.path, TagOf(place.node)[1])
    ELSE NoReport

AbiIsolated(place) ==
    IF TypeOf(place.node) # ""
    THEN try_parse_abi_item(place.node, place.path, TypeOf(place.node))
    ELSE NoReport

FirstFailure(tests) ==
    LET failed == {i \in DOMAIN tests : tests[i].found}
    IN  IF failed = {} THEN NoReport
        ELSE tests[CHOOSE i \in failed : \A k \in failed : i <= k]

\* path extends prefix by at least one segment.
Below(path, prefix) ==
    /\ Len(path) > Len(prefix)
    /\ SubSeq(path, 1, Len(prefix)) = prefix

(* C23: the report of the walk is the report of the first object, in the   *)
(* post-order of the document as parsed (members before their object,      *)
(* elements in index order), whose isolated decode fails, with that        *)
(* object's path from the root; no object below the reported one fails     *)
(* its isolated decode; without such an object the report is empty.        *)
C23_PostOrderFirstFailure ==
    Walked =>
        \E order \in MapOrders :
            LET places == PostOrder(ValueOf(docInput, order), <<>>)
                tests == <<>> \o [i \in DOMAIN places |-> Isolated(places[i])]
            IN  /\ docReport = FirstFailure(tests)
                /\ docReport.found =>
                       \A i \in DOMAIN places :
                           Below(places[i].path, docReport.path) =>
                               ~tests[i].found

(* The same for the walk of abi.rs.                                        *)
AbiPostOrderFirstFailure ==
    AbiReported =>
        \E order \in MapOrders :
            LET places == PostOrder(ValueOf(docInput, order), <<>>)
                tests == <<>> \o [i \in DOMAIN places |->
                                     AbiIsolated(places[i])]
            IN  /\ docReport = FirstFailure(tests)
                /\ docReport.found =>
                       \A i \in DOMAIN places :
                           Below(places[i].path, docReport.path) =>
                               ~tests[i].found

(* A report for a node two or more steps below the root, in a document     *)
(* whose root fails its isolated decode as well.                           *)
C23_Witness ==
    /\ Walked /\ docReport.found
    /\ Len(docReport.path) >= 2
    /\ \E order \in MapOrders :
           Isolated(Place(ValueOf(docInput, order), <<>>)).found

----------------------------------------------------------------------------
(* What the walk can report.                                               *)

\* An object with a string nodeType that the table of try_parse_node lists.
Recognized(node) ==
    /\ HasTag(node)
    /\ Len(TagOf(node)) = 1
    /\ TagOf(node)[1] \in DOMAIN TryParseTable

FailsIsolated(node) ==
    ~Decode(<<"Struct", TryParseTable[TagOf(node)[1]]>>, node).ok

(* C24: the report of the walk is empty exactly if no object of the parsed *)
(* document with a string nodeType of the table fails its decode as the    *)
(* record of that nodeType; a report names an object with such a nodeType  *)
(* that fails this decode, never an object without nodeType, with a        *)
(* nodeType that is not a string, or with one outside the table.           *)
C24_EmptyIffNoRecognizedFailure ==
    Walked =>
        \E order \in MapOrders :
            LET doc == ValueOf(docInput, order)
            IN  /\ ~docReport.found <=>
                       \A o \in Objects(doc) :
                           Recognized(o) => ~FailsIsolated(o)
                /\ docReport.found =>
                       LET n == ValueAt(doc, docReport.path)
                       IN  /\ Recognized(n)
                           /\ docReport.kind = TagOf(n)[1]
                           /\ FailsIsolated(n)

\* The objects of the document that the walk cannot report.
Unrecognized == {o \in Objects(docInput) : ~Recognized(o)}

(* A report in a document that holds an object without nodeType, one with  *)
(* a nodeType that is not a string and one with a nodeType outside the     *)
(* table: each case apart, and an empty report after a failed decode.      *)
C24_Witness ==
    /\ Walked /\ ~docResult.ok /\ docReport.found
    /\ \E o \in Unrecognized :
           /\ HasTag(o)
           /\ o \in Objects(ValueAt(docInput, docReport.path))

UntaggedBelowReport ==
    /\ Walked /\ docReport.found
    /\ \E o \in Unrecognized :
           /\ TagMembers(o) = {}
           /\ o \in Objects(ValueAt(docInput, docReport.path))

NonStringTagBelowReport ==
    /\ Walked /\ docReport.found
    /\ \E o \in Unrecognized :
           /\ \E p \in TagMembers(o) : o.items[p].v.t # "str"
           /\ o \in Objects(ValueAt(docInput, docReport.path))

NonStringTagUnreported ==
    /\ Walked /\ docResult.ok /\ ~docReport.found
    /\ \E o \in Unrecognized :
           \E p \in TagMembers(o) : o.items[p].v.t # "str"

EmptyReportAfterFailure == Walked /\ ~docResult.ok /\ ~docReport.found

====
